---------------------------- MODULE Spec2Model ----------------------------
(***************************************************************************)
(* A model of the pl011-uart-registers crate: the register value types of  *)
(* src/registrers.rs as the bitstuff macro expands them (src/expanded.rs)  *)
(* and the volatile register block UART<T> of src/lib.rs.                  *)
(*                                                                         *)
(* Thirteen specifications share the variables:                            *)
(*   Spec          register values built by Default / read and chains of   *)
(*                 with_f builders, inspected by getters;                  *)
(*   SpecDecode    every raw value of the registers with fallible fields,  *)
(*                 decoded by their getters;                               *)
(*   SpecRoundTrip a freshly constructed register value and one builder,   *)
(*                 over the whole value set of the field's type;           *)
(*   SpecCodec     a register value and one builder, given a value of the  *)
(*                 field's type or the value its getter just returned;     *)
(*   SpecConvert   a field type, its values encoded and its patterns       *)
(*                 decoded;                                                *)
(*   SpecWordLength  every raw value of the line control register and its  *)
(*                 word_length accessors;                                  *)
(*   SpecData      the default data register with overrun_error and data   *)
(*                 set one after the other;                                *)
(*   SpecAccess    execution contexts calling the public read_/write_/     *)
(*                 update_ operations of one UART handle against memory;   *)
(*   SpecSingle    the same operations called by one caller alone;         *)
(*   SpecUpdates   two execution contexts calling update_ operations only; *)
(*   SpecPair      one caller running the same operations through a        *)
(*                 FixedAddress<B> handle and a usize handle holding B;    *)
(*   SpecGetters   the getters of every register type on the raw values a  *)
(*                 read may return;                                        *)
(*   SpecDriver    one caller holding a handle and a register value that   *)
(*                 it reads, rebuilds and writes.                          *)
(***************************************************************************)
EXTENDS Integers, Sequences, FiniteSets, TLC

VARIABLES
  reg,      \* the register value type at hand (name of the struct)
  raw,      \* self.0, the raw storage integer of the register value
  prev,     \* self.0 before the last builder / getter call
  op,       \* the last operation on the value: "read", "default", "with", "get"
  field,    \* the field the last builder / getter was about
  arg,      \* the value the last builder was given
  got,      \* what the last getter returned
  origin,   \* how the value was constructed: "read" or "default"
  steps,    \* builder calls applied to the value so far
  uart,     \* the UART<T> handle: [base |-> T]
  mem,      \* the register block: address -> content of the cell
  trace,    \* the volatile accesses issued so far, in hardware order
  tasks,    \* per execution context: the public call it is inside of
  hist      \* the public calls started so far, in order

valueVars == <<reg, raw, prev, op, field, arg, got, origin, steps>>
accessVars == <<uart, mem, trace, tasks, hist>>
vars == <<reg, raw, prev, op, field, arg, got, origin, steps,
          uart, mem, trace, tasks, hist>>

---------------------------------------------------------------------------
(* Bounds of the model.                                                    *)

\* the longest chain of builder calls applied to one register value
MaxSteps == 2
\* the number of public UART calls started in one behaviour
MaxCalls == 2
\* the low bits that are cleared one at a time in the raw values read
SeedBits == 4

---------------------------------------------------------------------------
(* Fixed-width integer arithmetic of the generated code.  An unsigned      *)
(* integer of w bits is the set of the positions in 0..w-1 of its bits     *)
(* that are 1, so that a u32 with bit 31 set is a value like any other.    *)

Pow2(n) == 2 ^ n

RECURSIVE WordFrom(_, _)
\* the bits of the non-negative number n, the lowest of them at position i
WordFrom(n, i) ==
  IF n = 0 THEN {}
  ELSE (IF n % 2 = 1 THEN {i} ELSE {}) \cup WordFrom(n \div 2, i + 1)

\* the word of the non-negative number n (a literal, a field pattern)
Word(n) == WordFrom(n, 0)

RECURSIVE Num(_)
\* the number a word stands for
Num(x) ==
  IF x = {} THEN 0
  ELSE LET i == CHOOSE j \in x : TRUE IN Pow2(i) + Num(x \ {i})

\* a & b
BitAnd(a, b) == a \cap b

\* a | b
BitOr(a, b) == a \cup b

\* !m on an unsigned integer of w bits
BitNot(w, m) == (0..(w - 1)) \ m

\* x >> k
Shr(x, k) == {i - k : i \in {j \in x : j >= k}}

\* x << k on an unsigned integer of w bits: bits shifted past bit w-1 are lost
Shl(w, x, k) == {i + k : i \in {j \in x : j + k < w}}

\* `x as uN`: truncation to the low n bits
CastTo(n, x) == {i \in x : i < n}

\* trimmed_new keeping one bit less than the width of the type
trimmed_new_short(n, x) == {i \in x : i < n - 1}

\* bitstuff::ints::uN::trimmed_new(x): keeps the low n bits of its u8 argument
trimmed_new(n, x) == {i \in x : i < n}

---------------------------------------------------------------------------
(* Typed field conversions (FromBits / TryFromBits / ToBits).              *)

\* Result::Ok(v) and Result::Err(p); p is the number of the rejected pattern
Ok(v)  == [ok |-> TRUE,  v |-> v]
Err(p) == [ok |-> FALSE, v |-> p]

\* from_bits of bool with the two patterns exchanged
bool_from_bits_inverted(value) == Num(value) = 0

\* <bool as FromBits>::from_bits(u1)
bool_from_bits(value) == Num(value) = 1
\* <bool as ToBits>::to_bits
bool_to_bits(self) == Word(IF self THEN 1 ELSE 0)

\* <u8 as FromBits>::from_bits, <u6 as FromBits>::from_bits
uint_from_bits(value) == Num(value)
\* <u8 as ToBits>::to_bits, <u6 as ToBits>::to_bits, NonZero::to_bits
uint_to_bits(self) == Word(self)

\* from_bits of WordLength with the arms of patterns 1 and 2 exchanged
WordLength_from_bits_swapped(value) ==
  LET n == Num(value)
  IN  CASE n = 0 -> "FiveBits"
        [] n = 1 -> "SevenBits"
        [] n = 2 -> "SixBits"
        [] n = 3 -> "EightBits"
        [] OTHER -> "panic: internal error: entered unreachable code"

\* <WordLength as FromBits>::from_bits(u2)
WordLength_from_bits(value) ==
  LET n == Num(value)
  IN  CASE n = 0 -> "FiveBits"
        [] n = 1 -> "SixBits"
        [] n = 2 -> "SevenBits"
        [] n = 3 -> "EightBits"
        [] OTHER -> "panic: internal error: entered unreachable code"

\* <WordLength as ToBits>::to_bits
WordLength_to_bits(self) ==
  trimmed_new(2, Word(CASE self = "FiveBits"  -> 0
                        [] self = "SixBits"   -> 1
                        [] self = "SevenBits" -> 2
                        [] self = "EightBits" -> 3))

\* try_from_bits as a total decode would do it: an undefined pattern becomes
\* the default level
FIFOLevelSelect_try_from_bits_coerced(value) ==
  LET n == Num(value)
  IN  CASE n = 0 -> Ok("OneEighth")
        [] n = 1 -> Ok("OneFourth")
        [] n = 2 -> Ok("OneHalf")
        [] n = 3 -> Ok("ThreeFourth")
        [] n = 4 -> Ok("SevenEighth")
        [] OTHER -> Ok("OneHalf")

\* <FIFOLevelSelect as TryFromBits>::try_from_bits(u3)
FIFOLevelSelect_try_from_bits(value) ==
  LET n == Num(value)
  IN  CASE n = 0 -> Ok("OneEighth")
        [] n = 1 -> Ok("OneFourth")
        [] n = 2 -> Ok("OneHalf")
        [] n = 3 -> Ok("ThreeFourth")
        [] n = 4 -> Ok("SevenEighth")
        [] OTHER -> Err(n)

\* to_bits giving the level as a mask, one bit per level, without trimming
\* it to the three bits of the field
FIFOLevelSelect_to_bits_oneHot(self) ==
  Word(CASE self = "OneEighth"   -> 1
         [] self = "OneFourth"   -> 2
         [] self = "OneHalf"     -> 4
         [] self = "ThreeFourth" -> 8
         [] self = "SevenEighth" -> 16)

\* <FIFOLevelSelect as ToBits>::to_bits
FIFOLevelSelect_to_bits(self) ==
  trimmed_new(3, Word(CASE self = "OneEighth"   -> 0
                        [] self = "OneFourth"   -> 1
                        [] self = "OneHalf"     -> 2
                        [] self = "ThreeFourth" -> 3
                        [] self = "SevenEighth" -> 4))

\* try_from_bits without the test for zero
NonZero_try_from_bits_unchecked(value) == Ok(Num(value))

\* <NonZeroU8 / NonZeroU16 as TryFromBits>::try_from_bits: zero is no NonZero
NonZero_try_from_bits(value) ==
  IF Num(value) = 0 THEN Err(Num(value)) ELSE Ok(Num(value))

\* the width of the integer `(self.0 >> k) as _` is cast to: the argument of
\* uN::trimmed_new is a u8, u8 / NonZeroU8 take a u8, NonZeroU16 takes a u16
CastWidth(d) ==
  IF d.trim > 0 THEN 8
  ELSE IF d.ty = "NonZeroU16" THEN 16
  ELSE 8

\* from_bits / try_from_bits of the field type ty on pattern p
Decode(ty, p) ==
  CASE ty = "bool"            -> bool_from_bits(p)
    [] ty = "u8"              -> uint_from_bits(p)
    [] ty = "u6"              -> uint_from_bits(p)
    [] ty = "WordLength"      -> WordLength_from_bits(p)
    [] ty = "FIFOLevelSelect" -> FIFOLevelSelect_try_from_bits(p)
    [] ty = "NonZeroU8"       -> NonZero_try_from_bits(p)
    [] ty = "NonZeroU16"      -> NonZero_try_from_bits(p)

\* to_bits of the field type ty, widened by .into() to the storage integer
Encode(ty, value) ==
  CASE ty = "bool"            -> bool_to_bits(value)
    [] ty = "u8"              -> uint_to_bits(value)
    [] ty = "u6"              -> uint_to_bits(value)
    [] ty = "WordLength"      -> WordLength_to_bits(value)
    [] ty = "FIFOLevelSelect" -> FIFOLevelSelect_to_bits(value)
    [] ty = "NonZeroU8"       -> uint_to_bits(value)
    [] ty = "NonZeroU16"      -> uint_to_bits(value)

\* the field types whose getter returns a Result
Falliable(ty) == ty \in {"FIFOLevelSelect", "NonZeroU8", "NonZeroU16"}

---------------------------------------------------------------------------
(* The register catalogue: generated code (expanded.rs) and declarations   *)
(* (registrers.rs).                                                        *)

\* DataRegister(u32): the generated accessor pair of each field. shr/trim: the getter's
\* `(self.0 >> shr) as _` and `uN::trimmed_new` (trim = 0: no trimmed_new call);
\* clear/shl: the builder's `self.0 & !clear` and `value << shl`; ty: the field type.
DataRegister ==
  [ width  |-> 32,
    fields |-> [
      overrun_error |->
        [shr |-> 11, trim |-> 1, clear |-> 2048, shl |-> 11, ty |-> "bool"],
      break_error |->
        [shr |-> 10, trim |-> 1, clear |-> 1024, shl |-> 10, ty |-> "bool"],
      parity_error |->
        [shr |-> 9, trim |-> 1, clear |-> 512, shl |-> 9, ty |-> "bool"],
      framing_error |->
        [shr |-> 8, trim |-> 1, clear |-> 256, shl |-> 8, ty |-> "bool"],
      data |->
        [shr |-> 0, trim |-> 0, clear |-> 255, shl |-> 0, ty |-> "u8"] ] ]

\* ReceiveStatusRegister(u32): the generated accessor pair of each field. shr/trim: the getter's
\* `(self.0 >> shr) as _` and `uN::trimmed_new` (trim = 0: no trimmed_new call);
\* clear/shl: the builder's `self.0 & !clear` and `value << shl`; ty: the field type.
ReceiveStatusRegister ==
  [ width  |-> 32,
    fields |-> [
      overrun_error |->
        [shr |-> 3, trim |-> 1, clear |-> 8, shl |-> 3, ty |-> "bool"],
      break_error |->
        [shr |-> 2, trim |-> 1, clear |-> 4, shl |-> 2, ty |-> "bool"],
      parity_error |->
        [shr |-> 1, trim |-> 1, clear |-> 2, shl |-> 1, ty |-> "bool"],
      framing_error |->
        [shr |-> 0, trim |-> 1, clear |-> 1, shl |-> 0, ty |-> "bool"] ] ]

\* FlagRegister(u32): the generated accessor pair of each field. shr/trim: the getter's
\* `(self.0 >> shr) as _` and `uN::trimmed_new` (trim = 0: no trimmed_new call);
\* clear/shl: the builder's `self.0 & !clear` and `value << shl`; ty: the field type.
FlagRegister ==
  [ width  |-> 32,
    fields |-> [
      ring_indicator |->
        [shr |-> 8, trim |-> 1, clear |-> 256, shl |-> 8, ty |-> "bool"],
      transmit_fifo_empty |->
        [shr |-> 7, trim |-> 1, clear |-> 128, shl |-> 7, ty |-> "bool"],
      receive_fifo_full |->
        [shr |-> 6, trim |-> 1, clear |-> 64, shl |-> 6, ty |-> "bool"],
      transmit_fifo_full |->
        [shr |-> 5, trim |-> 1, clear |-> 32, shl |-> 5, ty |-> "bool"],
      receive_fifo_empty |->
        [shr |-> 4, trim |-> 1, clear |-> 16, shl |-> 4, ty |-> "bool"],
      uart_busy |->
        [shr |-> 3, trim |-> 1, clear |-> 8, shl |-> 3, ty |-> "bool"],
      data_carrier_detect |->
        [shr |-> 2, trim |-> 1, clear |-> 4, shl |-> 2, ty |-> "bool"],
      data_set_ready |->
        [shr |-> 1, trim |-> 1, clear |-> 2, shl |-> 1, ty |-> "bool"],
      clear_to_send |->
        [shr |-> 0, trim |-> 1, clear |-> 1, shl |-> 0, ty |-> "bool"] ] ]

\* IrDALowPowerRegister(u8): the generated accessor pair of each field. shr/trim: the getter's
\* `(self.0 >> shr) as _` and `uN::trimmed_new` (trim = 0: no trimmed_new call);
\* clear/shl: the builder's `self.0 & !clear` and `value << shl`; ty: the field type.
IrDALowPowerRegister ==
  [ width  |-> 8,
    fields |-> [
      low_power_divisor_value |->
        [shr |-> 0, trim |-> 0, clear |-> 255, shl |-> 0, ty |-> "NonZeroU8"] ] ]

\* IntegerBaudRateDivisorRegister(u16): the generated accessor pair of each field. shr/trim: the getter's
\* `(self.0 >> shr) as _` and `uN::trimmed_new` (trim = 0: no trimmed_new call);
\* clear/shl: the builder's `self.0 & !clear` and `value << shl`; ty: the field type.
IntegerBaudRateDivisorRegister ==
  [ width  |-> 16,
    fields |-> [
      integer_baud_rate_divisor |->
        [shr |-> 0, trim |-> 0, clear |-> 65535, shl |-> 0, ty |-> "NonZeroU16"] ] ]

\* FractionalBaudRateDivisorRegister(u8): the generated accessor pair of each field. shr/trim: the getter's
\* `(self.0 >> shr) as _` and `uN::trimmed_new` (trim = 0: no trimmed_new call);
\* clear/shl: the builder's `self.0 & !clear` and `value << shl`; ty: the field type.
FractionalBaudRateDivisorRegister ==
  [ width  |-> 8,
    fields |-> [
      fractional_baud_rate_divisor |->
        [shr |-> 0, trim |-> 6, clear |-> 63, shl |-> 0, ty |-> "u6"] ] ]

\* LineControlRegister(u16): the generated accessor pair of each field. shr/trim: the getter's
\* `(self.0 >> shr) as _` and `uN::trimmed_new` (trim = 0: no trimmed_new call);
\* clear/shl: the builder's `self.0 & !clear` and `value << shl`; ty: the field type.
LineControlRegister ==
  [ width  |-> 16,
    fields |-> [
      stick_parity |->
        [shr |-> 7, trim |-> 1, clear |-> 128, shl |-> 7, ty |-> "bool"],
      word_length |->
        [shr |-> 5, trim |-> 2, clear |-> 96, shl |-> 5, ty |-> "WordLength"],
      enable_fifos |->
        [shr |-> 4, trim |-> 1, clear |-> 16, shl |-> 4, ty |-> "bool"],
      two_stop_bits_select |->
        [shr |-> 3, trim |-> 1, clear |-> 8, shl |-> 3, ty |-> "bool"],
      even_parity_select |->
        [shr |-> 2, trim |-> 1, clear |-> 4, shl |-> 2, ty |-> "bool"],
      parity_enable |->
        [shr |-> 1, trim |-> 1, clear |-> 2, shl |-> 1, ty |-> "bool"],
      send_break |->
        [shr |-> 0, trim |-> 1, clear |-> 1, shl |-> 0, ty |-> "bool"] ] ]

\* ControlRegister(u16): the generated accessor pair of each field. shr/trim: the getter's
\* `(self.0 >> shr) as _` and `uN::trimmed_new` (trim = 0: no trimmed_new call);
\* clear/shl: the builder's `self.0 & !clear` and `value << shl`; ty: the field type.
ControlRegister ==
  [ width  |-> 16,
    fields |-> [
      CTS_hardware_flow_control_enable |->
        [shr |-> 15, trim |-> 1, clear |-> 32768, shl |-> 15, ty |-> "bool"],
      RTS_hardware_flow_control_enable |->
        [shr |-> 14, trim |-> 1, clear |-> 16384, shl |-> 14, ty |-> "bool"],
      out2 |->
        [shr |-> 13, trim |-> 1, clear |-> 8192, shl |-> 13, ty |-> "bool"],
      out1 |->
        [shr |-> 12, trim |-> 1, clear |-> 4096, shl |-> 12, ty |-> "bool"],
      request_to_send |->
        [shr |-> 11, trim |-> 1, clear |-> 2048, shl |-> 11, ty |-> "bool"],
      data_transmit_ready |->
        [shr |-> 10, trim |-> 1, clear |-> 1024, shl |-> 10, ty |-> "bool"],
      receive_enable |->
        [shr |-> 9, trim |-> 1, clear |-> 512, shl |-> 9, ty |-> "bool"],
      transmit_enable |->
        [shr |-> 8, trim |-> 1, clear |-> 256, shl |-> 8, ty |-> "bool"],
      loopback_enable |->
        [shr |-> 7, trim |-> 1, clear |-> 128, shl |-> 7, ty |-> "bool"],
      SIR_enable |->
        [shr |-> 1, trim |-> 1, clear |-> 2, shl |-> 1, ty |-> "bool"],
      UART_enable |->
        [shr |-> 0, trim |-> 1, clear |-> 1, shl |-> 0, ty |-> "bool"] ] ]

\* InterruptFIFOLevelSelectRegister(u16): the generated accessor pair of each field. shr/trim: the getter's
\* `(self.0 >> shr) as _` and `uN::trimmed_new` (trim = 0: no trimmed_new call);
\* clear/shl: the builder's `self.0 & !clear` and `value << shl`; ty: the field type.
InterruptFIFOLevelSelectRegister ==
  [ width  |-> 16,
    fields |-> [
      receive_interrupt_FIFO_level_select |->
        [shr |-> 3, trim |-> 3, clear |-> 56, shl |-> 3, ty |-> "FIFOLevelSelect"],
      transmit_interrupt_FIFO_level_select |->
        [shr |-> 0, trim |-> 3, clear |-> 7, shl |-> 0, ty |-> "FIFOLevelSelect"] ] ]

\* InterruptMaskSetClearRegister(u16): the generated accessor pair of each field. shr/trim: the getter's
\* `(self.0 >> shr) as _` and `uN::trimmed_new` (trim = 0: no trimmed_new call);
\* clear/shl: the builder's `self.0 & !clear` and `value << shl`; ty: the field type.
InterruptMaskSetClearRegister ==
  [ width  |-> 16,
    fields |-> [
      overrun_error_interrupt_mask |->
        [shr |-> 10, trim |-> 1, clear |-> 1024, shl |-> 10, ty |-> "bool"],
      break_error_interrupt_mask |->
        [shr |-> 9, trim |-> 1, clear |-> 512, shl |-> 9, ty |-> "bool"],
      parity_error_interrupt_mask |->
        [shr |-> 8, trim |-> 1, clear |-> 256, shl |-> 8, ty |-> "bool"],
      framing_error_interrupt_mask |->
        [shr |-> 7, trim |-> 1, clear |-> 128, shl |-> 7, ty |-> "bool"],
      receive_timeout_interrupt_mask |->
        [shr |-> 6, trim |-> 1, clear |-> 64, shl |-> 6, ty |-> "bool"],
      transmit_interrupt_mask |->
        [shr |-> 5, trim |-> 1, clear |-> 32, shl |-> 5, ty |-> "bool"],
      receive_interrupt_mask |->
        [shr |-> 4, trim |-> 1, clear |-> 16, shl |-> 4, ty |-> "bool"],
      nUARTDSR_modem_interrupt_mask |->
        [shr |-> 3, trim |-> 1, clear |-> 8, shl |-> 3, ty |-> "bool"],
      nUARTDCD_modem_interrupt_mask |->
        [shr |-> 2, trim |-> 1, clear |-> 4, shl |-> 2, ty |-> "bool"],
      nUARTCTS_modem_interrupt_mask |->
        [shr |-> 1, trim |-> 1, clear |-> 2, shl |-> 1, ty |-> "bool"],
      nUARTRI_modem_interrupt_mask |->
        [shr |-> 0, trim |-> 1, clear |-> 1, shl |-> 0, ty |-> "bool"] ] ]

\* The declared layout of DataRegister: #[bitstuff(bit = k)] is [lo |-> k, hi |-> k],
\* #[bitstuff(bits = a..=b)] is [lo |-> a, hi |-> b].
DataRegisterDecl ==
  [ width  |-> 32,
    fields |-> [
      overrun_error |-> [lo |-> 11, hi |-> 11, falliable |-> FALSE],
      break_error |-> [lo |-> 10, hi |-> 10, falliable |-> FALSE],
      parity_error |-> [lo |-> 9, hi |-> 9, falliable |-> FALSE],
      framing_error |-> [lo |-> 8, hi |-> 8, falliable |-> FALSE],
      data |-> [lo |-> 0, hi |-> 7, falliable |-> FALSE] ] ]

\* The declared layout of ReceiveStatusRegister: #[bitstuff(bit = k)] is [lo |-> k, hi |-> k],
\* #[bitstuff(bits = a..=b)] is [lo |-> a, hi |-> b].
ReceiveStatusRegisterDecl ==
  [ width  |-> 32,
    fields |-> [
      overrun_error |-> [lo |-> 3, hi |-> 3, falliable |-> FALSE],
      break_error |-> [lo |-> 2, hi |-> 2, falliable |-> FALSE],
      parity_error |-> [lo |-> 1, hi |-> 1, falliable |-> FALSE],
      framing_error |-> [lo |-> 0, hi |-> 0, falliable |-> FALSE] ] ]

\* The declared layout of FlagRegister: #[bitstuff(bit = k)] is [lo |-> k, hi |-> k],
\* #[bitstuff(bits = a..=b)] is [lo |-> a, hi |-> b].
FlagRegisterDecl ==
  [ width  |-> 32,
    fields |-> [
      ring_indicator |-> [lo |-> 8, hi |-> 8, falliable |-> FALSE],
      transmit_fifo_empty |-> [lo |-> 7, hi |-> 7, falliable |-> FALSE],
      receive_fifo_full |-> [lo |-> 6, hi |-> 6, falliable |-> FALSE],
      transmit_fifo_full |-> [lo |-> 5, hi |-> 5, falliable |-> FALSE],
      receive_fifo_empty |-> [lo |-> 4, hi |-> 4, falliable |-> FALSE],
      uart_busy |-> [lo |-> 3, hi |-> 3, falliable |-> FALSE],
      data_carrier_detect |-> [lo |-> 2, hi |-> 2, falliable |-> FALSE],
      data_set_ready |-> [lo |-> 1, hi |-> 1, falliable |-> FALSE],
      clear_to_send |-> [lo |-> 0, hi |-> 0, falliable |-> FALSE] ] ]

\* The declared layout of IrDALowPowerRegister: #[bitstuff(bit = k)] is [lo |-> k, hi |-> k],
\* #[bitstuff(bits = a..=b)] is [lo |-> a, hi |-> b].
IrDALowPowerRegisterDecl ==
  [ width  |-> 8,
    fields |-> [
      low_power_divisor_value |-> [lo |-> 0, hi |-> 7, falliable |-> TRUE] ] ]

\* The declared layout of IntegerBaudRateDivisorRegister: #[bitstuff(bit = k)] is [lo |-> k, hi |-> k],
\* #[bitstuff(bits = a..=b)] is [lo |-> a, hi |-> b].
IntegerBaudRateDivisorRegisterDecl ==
  [ width  |-> 16,
    fields |-> [
      integer_baud_rate_divisor |-> [lo |-> 0, hi |-> 15, falliable |-> TRUE] ] ]

\* The declared layout of FractionalBaudRateDivisorRegister: #[bitstuff(bit = k)] is [lo |-> k, hi |-> k],
\* #[bitstuff(bits = a..=b)] is [lo |-> a, hi |-> b].
FractionalBaudRateDivisorRegisterDecl ==
  [ width  |-> 8,
    fields |-> [
      fractional_baud_rate_divisor |-> [lo |-> 0, hi |-> 5, falliable |-> FALSE] ] ]

\* The declared layout of LineControlRegister: #[bitstuff(bit = k)] is [lo |-> k, hi |-> k],
\* #[bitstuff(bits = a..=b)] is [lo |-> a, hi |-> b].
LineControlRegisterDecl ==
  [ width  |-> 16,
    fields |-> [
      stick_parity |-> [lo |-> 7, hi |-> 7, falliable |-> FALSE],
      word_length |-> [lo |-> 5, hi |-> 6, falliable |-> FALSE],
      enable_fifos |-> [lo |-> 4, hi |-> 4, falliable |-> FALSE],
      two_stop_bits_select |-> [lo |-> 3, hi |-> 3, falliable |-> FALSE],
      even_parity_select |-> [lo |-> 2, hi |-> 2, falliable |-> FALSE],
      parity_enable |-> [lo |-> 1, hi |-> 1, falliable |-> FALSE],
      send_break |-> [lo |-> 0, hi |-> 0, falliable |-> FALSE] ] ]

\* the control register with out1 declared at bit 13, the bit of out2
ControlRegisterDecl_overlapping ==
  [ width  |-> 16,
    fields |-> [
      CTS_hardware_flow_control_enable |-> [lo |-> 15, hi |-> 15, falliable |-> FALSE],
      RTS_hardware_flow_control_enable |-> [lo |-> 14, hi |-> 14, falliable |-> FALSE],
      out2 |-> [lo |-> 13, hi |-> 13, falliable |-> FALSE],
      out1 |-> [lo |-> 13, hi |-> 13, falliable |-> FALSE],
      request_to_send |-> [lo |-> 11, hi |-> 11, falliable |-> FALSE],
      data_transmit_ready |-> [lo |-> 10, hi |-> 10, falliable |-> FALSE],
      receive_enable |-> [lo |-> 9, hi |-> 9, falliable |-> FALSE],
      transmit_enable |-> [lo |-> 8, hi |-> 8, falliable |-> FALSE],
      loopback_enable |-> [lo |-> 7, hi |-> 7, falliable |-> FALSE],
      SIR_enable |-> [lo |-> 1, hi |-> 1, falliable |-> FALSE],
      UART_enable |-> [lo |-> 0, hi |-> 0, falliable |-> FALSE] ] ]

\* The declared layout of ControlRegister: #[bitstuff(bit = k)] is [lo |-> k, hi |-> k],
\* #[bitstuff(bits = a..=b)] is [lo |-> a, hi |-> b].
ControlRegisterDecl ==
  [ width  |-> 16,
    fields |-> [
      CTS_hardware_flow_control_enable |-> [lo |-> 15, hi |-> 15, falliable |-> FALSE],
      RTS_hardware_flow_control_enable |-> [lo |-> 14, hi |-> 14, falliable |-> FALSE],
      out2 |-> [lo |-> 13, hi |-> 13, falliable |-> FALSE],
      out1 |-> [lo |-> 12, hi |-> 12, falliable |-> FALSE],
      request_to_send |-> [lo |-> 11, hi |-> 11, falliable |-> FALSE],
      data_transmit_ready |-> [lo |-> 10, hi |-> 10, falliable |-> FALSE],
      receive_enable |-> [lo |-> 9, hi |-> 9, falliable |-> FALSE],
      transmit_enable |-> [lo |-> 8, hi |-> 8, falliable |-> FALSE],
      loopback_enable |-> [lo |-> 7, hi |-> 7, falliable |-> FALSE],
      SIR_enable |-> [lo |-> 1, hi |-> 1, falliable |-> FALSE],
      UART_enable |-> [lo |-> 0, hi |-> 0, falliable |-> FALSE] ] ]

\* The declared layout of InterruptFIFOLevelSelectRegister: #[bitstuff(bit = k)] is [lo |-> k, hi |-> k],
\* #[bitstuff(bits = a..=b)] is [lo |-> a, hi |-> b].
InterruptFIFOLevelSelectRegisterDecl ==
  [ width  |-> 16,
    fields |-> [
      receive_interrupt_FIFO_level_select |-> [lo |-> 3, hi |-> 5, falliable |-> TRUE],
      transmit_interrupt_FIFO_level_select |-> [lo |-> 0, hi |-> 2, falliable |-> TRUE] ] ]

\* The declared layout of InterruptMaskSetClearRegister: #[bitstuff(bit = k)] is [lo |-> k, hi |-> k],
\* #[bitstuff(bits = a..=b)] is [lo |-> a, hi |-> b].
InterruptMaskSetClearRegisterDecl ==
  [ width  |-> 16,
    fields |-> [
      overrun_error_interrupt_mask |-> [lo |-> 10, hi |-> 10, falliable |-> FALSE],
      break_error_interrupt_mask |-> [lo |-> 9, hi |-> 9, falliable |-> FALSE],
      parity_error_interrupt_mask |-> [lo |-> 8, hi |-> 8, falliable |-> FALSE],
      framing_error_interrupt_mask |-> [lo |-> 7, hi |-> 7, falliable |-> FALSE],
      receive_timeout_interrupt_mask |-> [lo |-> 6, hi |-> 6, falliable |-> FALSE],
      transmit_interrupt_mask |-> [lo |-> 5, hi |-> 5, falliable |-> FALSE],
      receive_interrupt_mask |-> [lo |-> 4, hi |-> 4, falliable |-> FALSE],
      nUARTDSR_modem_interrupt_mask |-> [lo |-> 3, hi |-> 3, falliable |-> FALSE],
      nUARTDCD_modem_interrupt_mask |-> [lo |-> 2, hi |-> 2, falliable |-> FALSE],
      nUARTCTS_modem_interrupt_mask |-> [lo |-> 1, hi |-> 1, falliable |-> FALSE],
      nUARTRI_modem_interrupt_mask |-> [lo |-> 0, hi |-> 0, falliable |-> FALSE] ] ]
---------------------------------------------------------------------------
(* Register values: construction, getters and builders.                    *)

Registers ==
  { "DataRegister", "ReceiveStatusRegister", "FlagRegister",
    "IrDALowPowerRegister", "IntegerBaudRateDivisorRegister",
    "FractionalBaudRateDivisorRegister", "LineControlRegister",
    "ControlRegister", "InterruptFIFOLevelSelectRegister",
    "InterruptMaskSetClearRegister" }

\* the generated code of register type R
Code(R) ==
  CASE R = "DataRegister"                      -> DataRegister
    [] R = "ReceiveStatusRegister"             -> ReceiveStatusRegister
    [] R = "FlagRegister"                      -> FlagRegister
    [] R = "IrDALowPowerRegister"              -> IrDALowPowerRegister
    [] R = "IntegerBaudRateDivisorRegister"    -> IntegerBaudRateDivisorRegister
    [] R = "FractionalBaudRateDivisorRegister" -> FractionalBaudRateDivisorRegister
    [] R = "LineControlRegister"               -> LineControlRegister
    [] R = "ControlRegister"                   -> ControlRegister
    [] R = "InterruptFIFOLevelSelectRegister"  -> InterruptFIFOLevelSelectRegister
    [] R = "InterruptMaskSetClearRegister"     -> InterruptMaskSetClearRegister

\* the declaration of register type R
Decl(R) ==
  CASE R = "DataRegister"                      -> DataRegisterDecl
    [] R = "ReceiveStatusRegister"             -> ReceiveStatusRegisterDecl
    [] R = "FlagRegister"                      -> FlagRegisterDecl
    [] R = "IrDALowPowerRegister"              -> IrDALowPowerRegisterDecl
    [] R = "IntegerBaudRateDivisorRegister"    -> IntegerBaudRateDivisorRegisterDecl
    [] R = "FractionalBaudRateDivisorRegister" -> FractionalBaudRateDivisorRegisterDecl
    [] R = "LineControlRegister"               -> LineControlRegisterDecl
    [] R = "ControlRegister"                   -> ControlRegisterDecl
    [] R = "InterruptFIFOLevelSelectRegister"  -> InterruptFIFOLevelSelectRegisterDecl
    [] R = "InterruptMaskSetClearRegister"     -> InterruptMaskSetClearRegisterDecl

Width(R) == Code(R).width
Fields(R) == DOMAIN Code(R).fields
FieldType(R, f) == Code(R).fields[f].ty

\* the register types with an `impl Default` (#[derive(Default)]); the two
\* interrupt registers have none
DerivesDefault ==
  { "DataRegister", "ReceiveStatusRegister", "FlagRegister",
    "IrDALowPowerRegister", "IntegerBaudRateDivisorRegister",
    "FractionalBaudRateDivisorRegister", "LineControlRegister",
    "ControlRegister" }

\* a Default that starts every register at 1
default_one(R) == Word(1)

\* R::default(): R(::core::default::Default::default()), the integer zero
default(R) == Word(0)

\* a getter that narrows self.0 by the cast before it shifts: the bits above the
\* cast width never reach the field
GetterPattern_castFirst(d, self) ==
  IF d.trim > 0
    THEN trimmed_new(d.trim, Shr(CastTo(CastWidth(d), self), d.shr))
    ELSE Shr(CastTo(CastWidth(d), self), d.shr)

\* a getter that does not trim the shifted value to the width of the field
GetterPattern_untrimmed(d, self) == CastTo(CastWidth(d), Shr(self, d.shr))

\* a getter that trims the shifted value to one bit more than the field has
GetterPattern_wide(d, self) ==
  IF d.trim > 0
    THEN trimmed_new(d.trim + 1, CastTo(CastWidth(d), Shr(self, d.shr)))
    ELSE CastTo(CastWidth(d), Shr(self, d.shr))

\* the pattern a getter hands to from_bits / try_from_bits:
\* uN::trimmed_new((self.0 >> shr) as _), or (self.0 >> shr) as _
GetterPattern(d, self) ==
  IF d.trim > 0
    THEN trimmed_new(d.trim, CastTo(CastWidth(d), Shr(self, d.shr)))
    ELSE CastTo(CastWidth(d), Shr(self, d.shr))

\* pub fn f(&self) of register type R
Getter(R, f, self) ==
  LET d == Code(R).fields[f]
  IN  Decode(d.ty, GetterPattern(d, self))

\* the builder that forgets the old value: self.0 = value << shl
Insert_overwrite(w, d, self, value) == Shl(w, value, d.shl)

\* the builder without the shift: the encoded value lands at bit 0
Insert_noShift(w, d, self, value) ==
  BitOr(BitAnd(self, BitNot(w, Word(d.clear))), value)

\* the builder with !clear taken on a u8: the bits above bit 7 are cleared too
Insert_narrowNot(w, d, self, value) ==
  BitOr(BitAnd(self, BitNot(8, Word(d.clear))), Shl(w, value, d.shl))

\* the builder without the `!`: self.0 & clear keeps the old bits of the field
\* and clears the others
Insert_noNot(w, d, self, value) ==
  BitOr(BitAnd(self, Word(d.clear)), Shl(w, value, d.shl))

\* the builder that does not clear the field first: self.0 | (value << shl)
Insert_orOnly(w, d, self, value) == BitOr(self, Shl(w, value, d.shl))

\* self.0 = (self.0 & !clear) | (value << shl) on the storage integer of w bits
Insert(w, d, self, value) ==
  BitOr(BitAnd(self, BitNot(w, Word(d.clear))), Shl(w, value, d.shl))

\* pub fn with_f(mut self, value) of register type R
Builder(R, f, self, value) ==
  LET d == Code(R).fields[f]
  IN  Insert(Code(R).width, d, self, Encode(d.ty, value))

---------------------------------------------------------------------------
(* Inputs of the register value specifications.                            *)

\* raw values a volatile read may hand to a register value of w bits: all
\* zero, all one, the two alternating patterns, the top bit alone, and all
\* one but one of the low bits
RawSeeds(w) ==
  { {}, 0..(w - 1),
    {i \in 0..(w - 1) : i % 2 = 0}, {i \in 0..(w - 1) : i % 2 = 1},
    {w - 1} }
    \cup {(0..(w - 1)) \ {i} : i \in 0..(SeedBits - 1)}

\* every value of a field type
AllValues(ty) ==
  CASE ty = "bool"            -> BOOLEAN
    [] ty = "u8"              -> 0..255
    [] ty = "u6"              -> 0..63
    [] ty = "WordLength"      -> {"FiveBits", "SixBits", "SevenBits", "EightBits"}
    [] ty = "FIFOLevelSelect" -> {"OneEighth", "OneFourth", "OneHalf",
                                  "ThreeFourth", "SevenEighth"}
    [] ty = "NonZeroU8"       -> 1..255
    [] ty = "NonZeroU16"      -> 1..65535

\* the values builders are given in chains: the whole type where it is small,
\* its extremes and alternating patterns otherwise
Values(ty) ==
  CASE ty = "u8"         -> {0, 1, 85, 170, 255}
    [] ty = "u6"         -> {0, 1, 21, 42, 63}
    [] ty = "NonZeroU8"  -> {1, 85, 170, 255}
    [] ty = "NonZeroU16" -> {1, 255, 256, 21845, 43690, 65535}
    [] OTHER             -> AllValues(ty)

\* the access variables of a register block nobody uses
NoAccess ==
  /\ uart = [base |-> [ty |-> "usize", addr |-> 0]]
  /\ mem = <<>>
  /\ trace = <<>>
  /\ tasks = <<>>
  /\ hist = <<>>

---------------------------------------------------------------------------
(* Spec: register values and chains of builders.                           *)

\* a register value as its constructor leaves it: handed out by a volatile
\* read (any raw value), or R::default() where R implements Default
Init ==
  /\ reg \in Registers
  /\ \/ raw \in RawSeeds(Width(reg)) /\ origin = "read" /\ op = "read"
     \/ reg \in DerivesDefault /\ raw = default(reg) /\ origin = "default"
        /\ op = "default"
  /\ prev = raw
  /\ field = "none"
  /\ arg = "none"
  /\ got = "none"
  /\ steps = 0
  /\ NoAccess

\* a builder that writes the register value through to the block behind
\* the handle
With_writeThrough(f, value) ==
  /\ steps < MaxSteps
  /\ raw' = Builder(reg, f, raw, value)
  /\ prev' = raw
  /\ op' = "with"
  /\ field' = f
  /\ arg' = value
  /\ got' = "none"
  /\ steps' = steps + 1
  /\ mem' = [a \in DOMAIN mem |->
               IF \A b \in DOMAIN mem : a <= b
                 THEN Builder(reg, f, raw, value)
                 ELSE mem[a]]
  /\ UNCHANGED <<reg, origin, uart, trace, tasks, hist>>

\* self.with_f(value)
With(f, value) ==
  /\ steps < MaxSteps
  /\ raw' = Builder(reg, f, raw, value)
  /\ prev' = raw
  /\ op' = "with"
  /\ field' = f
  /\ arg' = value
  /\ got' = "none"
  /\ steps' = steps + 1
  /\ UNCHANGED <<reg, origin>>
  /\ UNCHANGED accessVars

\* self.f(): &self, the value is left as it is
Get(f) ==
  /\ got' = Getter(reg, f, raw)
  /\ op' = "get"
  /\ field' = f
  /\ arg' = "none"
  /\ prev' = raw
  /\ UNCHANGED <<reg, raw, origin, steps>>
  /\ UNCHANGED accessVars

Next ==
  \/ \E f \in Fields(reg) : \E value \in Values(FieldType(reg, f)) : With(f, value)
  \/ \E f \in Fields(reg) : Get(f)

Spec == Init /\ [][Next]_vars

---------------------------------------------------------------------------
(* SpecDecode: every raw value of the registers with fallible fields.      *)

FalliableRegisters ==
  {R \in Registers : \E f \in Fields(R) : Falliable(FieldType(R, f))}

InitDecode ==
  /\ reg \in FalliableRegisters
  /\ raw \in SUBSET (0..(Width(reg) - 1))
  /\ prev = raw
  /\ op = "read"
  /\ field = "none"
  /\ arg = "none"
  /\ got = "none"
  /\ origin = "read"
  /\ steps = 0
  /\ NoAccess

NextDecode == \E f \in Fields(reg) : Get(f)

SpecDecode == InitDecode /\ [][NextDecode]_vars

---------------------------------------------------------------------------
(* SpecRoundTrip: one builder on a freshly constructed value.              *)

\* R::default() where R implements Default; the other register types are
\* only ever constructed by a volatile read
InitRoundTrip ==
  /\ reg \in Registers
  /\ \/ reg \in DerivesDefault /\ raw = default(reg) /\ origin = "default"
        /\ op = "default"
     \/ reg \notin DerivesDefault /\ raw \in RawSeeds(Width(reg))
        /\ origin = "read" /\ op = "read"
  /\ prev = raw
  /\ field = "none"
  /\ arg = "none"
  /\ got = "none"
  /\ steps = 0
  /\ NoAccess

NextRoundTrip ==
  /\ steps = 0
  /\ \E f \in Fields(reg) : \E value \in AllValues(FieldType(reg, f)) :
       With(f, value)

SpecRoundTrip == InitRoundTrip /\ [][NextRoundTrip]_vars

---------------------------------------------------------------------------
(* SpecCodec: one builder on a register value, fed from the type or from   *)
(* the getter of the same field.                                           *)

\* the getter of f returned a value a builder can take
Decodes(R, f, self) ==
  IF Falliable(FieldType(R, f)) THEN Getter(R, f, self).ok ELSE TRUE

\* the value in the result of a getter
Unwrap(ty, r) == IF Falliable(ty) THEN r.v ELSE r

\* self.with_f(self.f()), with unwrap() on the result of a fallible getter
Reinsert(f) ==
  /\ steps = 0
  /\ Decodes(reg, f, raw)
  /\ got' = Getter(reg, f, raw)
  /\ arg' = Unwrap(FieldType(reg, f), Getter(reg, f, raw))
  /\ raw' = Builder(reg, f, raw, Unwrap(FieldType(reg, f), Getter(reg, f, raw)))
  /\ prev' = raw
  /\ op' = "reinsert"
  /\ field' = f
  /\ steps' = steps + 1
  /\ UNCHANGED <<reg, origin>>
  /\ UNCHANGED accessVars

\* the values the builder is given: the whole type, but for the 16-bit
\* divisor its extremes and alternating patterns
CodecValues(ty) == IF ty = "NonZeroU16" THEN Values(ty) ELSE AllValues(ty)

NextCodec ==
  \/ \E f \in Fields(reg) : Reinsert(f)
  \/ /\ steps = 0
     /\ \E f \in Fields(reg) : \E value \in CodecValues(FieldType(reg, f)) :
          With(f, value)

SpecCodec == Init /\ [][NextCodec]_vars

---------------------------------------------------------------------------
(* SpecConvert: the conversions of the field types, on their own.          *)

FieldTypes ==
  {"bool", "u8", "u6", "WordLength", "FIFOLevelSelect", "NonZeroU8", "NonZeroU16"}

\* the width n of BitRepr of a field type: u1, u8, u6, u2, u3, u8, u16
TypeBits(ty) ==
  CASE ty = "bool"            -> 1
    [] ty = "u8"              -> 8
    [] ty = "u6"              -> 6
    [] ty = "WordLength"      -> 2
    [] ty = "FIFOLevelSelect" -> 3
    [] ty = "NonZeroU8"       -> 8
    [] ty = "NonZeroU16"      -> 16

\* a field type is at hand (in reg), nothing converted yet
InitConvert ==
  /\ reg \in FieldTypes
  /\ raw = {}
  /\ prev = {}
  /\ op = "none"
  /\ field = "none"
  /\ arg = "none"
  /\ got = "none"
  /\ origin = "none"
  /\ steps = 0
  /\ NoAccess

\* <T as ToBits>::to_bits(value)
ToBits(value) ==
  /\ raw' = Encode(reg, value)
  /\ arg' = value
  /\ op' = "to_bits"
  /\ steps' = steps + 1
  /\ UNCHANGED <<reg, prev, field, got, origin>>
  /\ UNCHANGED accessVars

\* <T as FromBits>::from_bits(pattern) / <T as TryFromBits>::try_from_bits
FromBits(pattern) ==
  /\ got' = Decode(reg, pattern)
  /\ raw' = pattern
  /\ op' = "from_bits"
  /\ steps' = steps + 1
  /\ UNCHANGED <<reg, prev, field, arg, origin>>
  /\ UNCHANGED accessVars

NextConvert ==
  \/ steps = 0 /\ \E value \in AllValues(reg) : ToBits(value)
  \/ steps = 0 /\ \E pattern \in SUBSET (0..(TypeBits(reg) - 1)) :
                     FromBits(pattern)

SpecConvert == InitConvert /\ [][NextConvert]_vars

---------------------------------------------------------------------------
(* SpecWordLength: the word length field over every line control value.    *)

InitWordLength ==
  /\ reg = "LineControlRegister"
  /\ raw \in SUBSET (0..(Width(reg) - 1))
  /\ prev = raw
  /\ op = "read"
  /\ field = "none"
  /\ arg = "none"
  /\ got = "none"
  /\ origin = "read"
  /\ steps = 0
  /\ NoAccess

NextWordLength ==
  \/ steps = 0 /\ Get("word_length")
  \/ steps = 0 /\ \E value \in AllValues("WordLength") : With("word_length", value)

SpecWordLength == InitWordLength /\ [][NextWordLength]_vars

---------------------------------------------------------------------------
(* SpecData: overrun_error and data set on the default data register.      *)

InitData ==
  /\ reg = "DataRegister"
  /\ raw = default(reg)
  /\ prev = raw
  /\ op = "default"
  /\ field = "none"
  /\ arg = "none"
  /\ got = "none"
  /\ origin = "default"
  /\ steps = 0
  /\ NoAccess

\* the register value after with_f1(v1).with_f2(v2) on self
Chain(R, self, f1, v1, f2, v2) == Builder(R, f2, Builder(R, f1, self, v1), v2)

\* DataRegister::default().with_overrun_error(b).with_data(d), or the two
\* builders in the other order, followed by overrun_error() and data()
WithBoth(b, d, first) ==
  /\ raw' = IF first = "overrun_error"
              THEN Chain(reg, raw, "overrun_error", b, "data", d)
              ELSE Chain(reg, raw, "data", d, "overrun_error", b)
  /\ got' = <<Getter(reg, "overrun_error", raw'), Getter(reg, "data", raw')>>
  /\ arg' = <<b, d>>
  /\ field' = first
  /\ prev' = raw
  /\ op' = "with_both"
  /\ steps' = steps + 1
  /\ UNCHANGED <<reg, origin>>
  /\ UNCHANGED accessVars

NextData ==
  steps = 0 /\ \E b \in BOOLEAN : \E d \in AllValues("u8") :
                 \E first \in {"overrun_error", "data"} : WithBoth(b, d, first)

SpecData == InitData /\ [][NextData]_vars


---------------------------------------------------------------------------
(* SpecGetters: the getters of every register type on raw values that a    *)
(* volatile read may return.                                               *)

\* the bits of the raw value that the getter of field f of R looks at
Looks(R, f) ==
  LET d == Code(R).fields[f]
  IN  {i + d.shl : i \in Word(d.clear \div Pow2(d.shl))}

\* every raw value of the line control register; for the other registers
\* every pattern of each field, the other bits all 0 or all 1
InitGetters ==
  /\ reg \in Registers
  /\ IF reg = "LineControlRegister"
       THEN raw \in SUBSET (0..(Width(reg) - 1))
       ELSE \E f \in Fields(reg) :
              \E p \in SUBSET Looks(reg, f) :
                \E b \in {{}, (0..(Width(reg) - 1)) \ Looks(reg, f)} :
                  raw = p \cup b
  /\ prev = raw
  /\ op = "read"
  /\ field = "none"
  /\ arg = "none"
  /\ got = "none"
  /\ origin = "read"
  /\ steps = 0
  /\ NoAccess

\* one getter call on the value read
NextGetters == op = "read" /\ \E f \in Fields(reg) : Get(f)

SpecGetters == InitGetters /\ [][NextGetters]_vars
---------------------------------------------------------------------------
(* The register block UART<T> (src/lib.rs).                                *)

\* a base address that moves on with every access made
base_address_drifting(self) ==
  (IF self.ty = "usize" THEN self.addr ELSE self.BASE) + Len(trace)

\* a FixedAddress that yields the address of the first block whatever its
\* BASE parameter is
base_address_firstBlock(self) == IF self.ty = "usize" THEN self.addr ELSE 4096

\* <usize as BaseAddress>::base_address and
\* <FixedAddress<BASE> as BaseAddress>::base_address
base_address(self) == IF self.ty = "usize" THEN self.addr ELSE self.BASE

\* UART::new(base)
new(base) == [base |-> base]

\* the register types lib.rs names that are declared in this crate; the
\* others (raw / masked interrupt status, interrupt clear, DMA control) are
\* named by the accessors but declared nowhere in it
ExternalTypes ==
  { "RawInterruptStatusRegister", "MaskedInterruptStatusRegister",
    "InterruptClearRegister", "DMAControlRegister" }

\* size_of::<R>() in bytes of a transparent wrapper of an integer, and of u32
size_of(R) == IF R = "u32" THEN 4 ELSE Width(R) \div 8

\* <*const u8>::add(count): the pointer count elements of `size` bytes on
ptr_add(p, size, count) == p + count * size

\* the pointer computed with the cast to *const R before the add: the offset
\* counts elements of R
register_pointer_castFirst(self, offset, R) ==
  ptr_add(base_address(self.base),
          IF R \in ExternalTypes THEN 4 ELSE size_of(R), offset)

\* (self.base.base_address() as *const u8).add(offset) as *const R
register_pointer(self, offset, R) == ptr_add(base_address(self.base), 1, offset)

\* the content of the cell at addr
Cell(m, addr) == IF addr \in DOMAIN m THEN m[addr] ELSE {}

\* raw.read_volatile() of an R: the size_of::<R>() bytes at raw; a value of
\* a type declared elsewhere is taken as the content of its cell
read_volatile(m, raw_, R) ==
  IF R \in ExternalTypes
    THEN Cell(m, raw_)
    ELSE CastTo(8 * size_of(R), Cell(m, raw_))

\* raw.write_volatile(value): the memory after the store
write_volatile(m, raw_, value) ==
  [a \in DOMAIN m \cup {raw_} |-> IF a = raw_ THEN value ELSE m[a]]

\* the public operations of impl<T: BaseAddress> UART<T>: the private
\* function each calls, its offset and its register type R

read_data_register ==
  [name |-> "read_data_register", kind |-> "read",
   offset |-> 0, ty |-> "DataRegister"]   \* 0x00

write_data_register ==
  [name |-> "write_data_register", kind |-> "write",
   offset |-> 0, ty |-> "DataRegister"]   \* 0x00

update_data_register ==
  [name |-> "update_data_register", kind |-> "update",
   offset |-> 0, ty |-> "DataRegister"]   \* 0x00

read_receive_status_register ==
  [name |-> "read_receive_status_register", kind |-> "read",
   offset |-> 4, ty |-> "ReceiveStatusRegister"]   \* 0x04

\* the error clear operation written with the offset of the flag register
write_error_clear_register_atFlag ==
  [name |-> "write_error_clear_register", kind |-> "write",
   offset |-> 24, ty |-> "u32"]

write_error_clear_register ==
  [name |-> "write_error_clear_register", kind |-> "write",
   offset |-> 4, ty |-> "u32"]   \* 0x04

read_flag_register ==
  [name |-> "read_flag_register", kind |-> "read",
   offset |-> 24, ty |-> "FlagRegister"]   \* 0x18

read_irda_low_power_register ==
  [name |-> "read_irda_low_power_register", kind |-> "read",
   offset |-> 32, ty |-> "IrDALowPowerRegister"]   \* 0x20

write_irda_low_power_register ==
  [name |-> "write_irda_low_power_register", kind |-> "write",
   offset |-> 32, ty |-> "IrDALowPowerRegister"]   \* 0x20

update_irda_low_power_register ==
  [name |-> "update_irda_low_power_register", kind |-> "update",
   offset |-> 32, ty |-> "IrDALowPowerRegister"]   \* 0x20

read_integer_baud_rate_divisor_register ==
  [name |-> "read_integer_baud_rate_divisor_register", kind |-> "read",
   offset |-> 36, ty |-> "IntegerBaudRateDivisorRegister"]   \* 0x24

write_integer_baud_rate_divisor_register ==
  [name |-> "write_integer_baud_rate_divisor_register", kind |-> "write",
   offset |-> 36, ty |-> "IntegerBaudRateDivisorRegister"]   \* 0x24

update_integer_baud_rate_divisor_register ==
  [name |-> "update_integer_baud_rate_divisor_register", kind |-> "update",
   offset |-> 36, ty |-> "IntegerBaudRateDivisorRegister"]   \* 0x24

read_fractional_baud_rate_divisor_register ==
  [name |-> "read_fractional_baud_rate_divisor_register", kind |-> "read",
   offset |-> 40, ty |-> "FractionalBaudRateDivisorRegister"]   \* 0x28

write_fractional_baud_rate_divisor_register ==
  [name |-> "write_fractional_baud_rate_divisor_register", kind |-> "write",
   offset |-> 40, ty |-> "FractionalBaudRateDivisorRegister"]   \* 0x28

update_fractional_baud_rate_divisor_register ==
  [name |-> "update_fractional_baud_rate_divisor_register", kind |-> "update",
   offset |-> 40, ty |-> "FractionalBaudRateDivisorRegister"]   \* 0x28

read_line_control_register ==
  [name |-> "read_line_control_register", kind |-> "read",
   offset |-> 44, ty |-> "LineControlRegister"]   \* 0x2C

write_line_control_register ==
  [name |-> "write_line_control_register", kind |-> "write",
   offset |-> 44, ty |-> "LineControlRegister"]   \* 0x2C

\* the update of the line control register written with the offset of the
\* control register
update_line_control_register_atControl ==
  [name |-> "update_line_control_register", kind |-> "update",
   offset |-> 48, ty |-> "LineControlRegister"]

update_line_control_register ==
  [name |-> "update_line_control_register", kind |-> "update",
   offset |-> 44, ty |-> "LineControlRegister"]   \* 0x2C

read_control_register ==
  [name |-> "read_control_register", kind |-> "read",
   offset |-> 48, ty |-> "ControlRegister"]   \* 0x30

write_control_register ==
  [name |-> "write_control_register", kind |-> "write",
   offset |-> 48, ty |-> "ControlRegister"]   \* 0x30

update_control_register ==
  [name |-> "update_control_register", kind |-> "update",
   offset |-> 48, ty |-> "ControlRegister"]   \* 0x30

read_interrupt_fifo_level_select_register ==
  [name |-> "read_interrupt_fifo_level_select_register", kind |-> "read",
   offset |-> 52, ty |-> "InterruptFIFOLevelSelectRegister"]   \* 0x34

write_interrupt_fifo_level_select_register ==
  [name |-> "write_interrupt_fifo_level_select_register", kind |-> "write",
   offset |-> 52, ty |-> "InterruptFIFOLevelSelectRegister"]   \* 0x34

update_interrupt_fifo_level_select_register ==
  [name |-> "update_interrupt_fifo_level_select_register", kind |-> "update",
   offset |-> 52, ty |-> "InterruptFIFOLevelSelectRegister"]   \* 0x34

read_interrupt_mask_set_clear_register ==
  [name |-> "read_interrupt_mask_set_clear_register", kind |-> "read",
   offset |-> 56, ty |-> "InterruptMaskSetClearRegister"]   \* 0x38

write_interrupt_mask_set_clear_register ==
  [name |-> "write_interrupt_mask_set_clear_register", kind |-> "write",
   offset |-> 56, ty |-> "InterruptMaskSetClearRegister"]   \* 0x38

update_interrupt_mask_set_clear_register ==
  [name |-> "update_interrupt_mask_set_clear_register", kind |-> "update",
   offset |-> 56, ty |-> "InterruptMaskSetClearRegister"]   \* 0x38

read_raw_interrupt_status_register ==
  [name |-> "read_raw_interrupt_status_register", kind |-> "read",
   offset |-> 60, ty |-> "RawInterruptStatusRegister"]   \* 0x3C

read_masked_interrupt_status_register ==
  [name |-> "read_masked_interrupt_status_register", kind |-> "read",
   offset |-> 64, ty |-> "MaskedInterruptStatusRegister"]   \* 0x40

write_interrupt_clear_register ==
  [name |-> "write_interrupt_clear_register", kind |-> "write",
   offset |-> 68, ty |-> "InterruptClearRegister"]   \* 0x44

read_dma_control_register ==
  [name |-> "read_dma_control_register", kind |-> "read",
   offset |-> 72, ty |-> "DMAControlRegister"]   \* 0x48

write_dma_control_register ==
  [name |-> "write_dma_control_register", kind |-> "write",
   offset |-> 72, ty |-> "DMAControlRegister"]   \* 0x48

update_dma_control_register ==
  [name |-> "update_dma_control_register", kind |-> "update",
   offset |-> 72, ty |-> "DMAControlRegister"]   \* 0x48

\* the public read_X operations of impl<T: BaseAddress> UART<T>
ReadOps ==
  { read_data_register,
    read_receive_status_register,
    read_flag_register,
    read_irda_low_power_register,
    read_integer_baud_rate_divisor_register,
    read_fractional_baud_rate_divisor_register,
    read_line_control_register,
    read_control_register,
    read_interrupt_fifo_level_select_register,
    read_interrupt_mask_set_clear_register,
    read_raw_interrupt_status_register,
    read_masked_interrupt_status_register,
    read_dma_control_register }

\* the public write_X operations of impl<T: BaseAddress> UART<T>
WriteOps ==
  { write_data_register,
    write_error_clear_register,
    write_irda_low_power_register,
    write_integer_baud_rate_divisor_register,
    write_fractional_baud_rate_divisor_register,
    write_line_control_register,
    write_control_register,
    write_interrupt_fifo_level_select_register,
    write_interrupt_mask_set_clear_register,
    write_interrupt_clear_register,
    write_dma_control_register }

\* the public update_X operations of impl<T: BaseAddress> UART<T>
UpdateOps ==
  { update_data_register,
    update_irda_low_power_register,
    update_integer_baud_rate_divisor_register,
    update_fractional_baud_rate_divisor_register,
    update_line_control_register,
    update_control_register,
    update_interrupt_fifo_level_select_register,
    update_interrupt_mask_set_clear_register,
    update_dma_control_register }

Operations == ReadOps \cup WriteOps \cup UpdateOps

\* the operation of name n
OpOf(n) == CHOOSE o \in Operations : o.name = n

---------------------------------------------------------------------------
(* SpecAccess: execution contexts calling the operations of one handle.    *)

\* the execution contexts (a thread and an interrupt handler, say) holding
\* the handle or a copy of it
Contexts == {1, 2}

\* the base addresses a handle is made for
Handles ==
  { [ty |-> "usize", addr |-> 4096], [ty |-> "FixedAddress", BASE |-> 36864] }

\* the content of the register at `offset` when the program starts: a
\* pattern of the odd bits that differs from register to register
ResetContent(offset) == Word(43690 + offset)

\* register values a caller passes to write_X
WriteValues(R) ==
  IF R \in ExternalTypes
    THEN {Word(3)}
    ELSE {{i \in 0..(Width(R) - 1) : i % 2 = 1}}

\* write_error_clear_register storing 1u32 instead of 0u32
WriteArgs_one(o) == IF o.ty = "u32" THEN {Word(1)} ELSE WriteValues(o.ty)

\* the arguments of write operation o; write_error_clear_register takes none
\* and stores 0u32
WriteArgs(o) == IF o.ty = "u32" THEN {Word(0)} ELSE WriteValues(o.ty)

\* closures a caller passes to update_X:
\*   keep     |r| r
\*   with     |r| r.with_f(value)
\*   toggle   |r| r.with_f(!r.f())
\*   const    |_| value
keep == [kind |-> "keep", field |-> "none", value |-> {}]
with(f, value) == [kind |-> "with", field |-> f, value |-> value]
toggle(f) == [kind |-> "toggle", field |-> f, value |-> {}]
const(value) == [kind |-> "const", field |-> "none", value |-> value]

Closures(R) ==
  CASE R = "DMAControlRegister" -> {keep, const(Word(5))}
    [] R = "ControlRegister" ->
         {keep, with("UART_enable", TRUE), toggle("transmit_enable")}
    [] OTHER -> {keep}

\* the closure applied to a fresh R::default() instead of the value read
Apply_fresh(f, R, v) ==
  CASE f.kind = "keep"   -> v
    [] f.kind = "with"   -> Builder(R, f.field, default(R), f.value)
    [] f.kind = "toggle" -> Builder(R, f.field, default(R), ~Getter(R, f.field, v))
    [] f.kind = "const"  -> f.value

\* f(v) for a closure f: FnOnce(R) -> R
Apply(f, R, v) ==
  CASE f.kind = "keep"   -> v
    [] f.kind = "with"   -> Builder(R, f.field, v, f.value)
    [] f.kind = "toggle" -> Builder(R, f.field, v, ~Getter(R, f.field, v))
    [] f.kind = "const"  -> f.value

Idle == [pc |-> "idle", call |-> 0, v |-> {}]

\* the contexts are numbered in the order of their first call
MayCall(c) == tasks[c].pc = "idle" /\ (IF c = 1 THEN TRUE ELSE hist # <<>>)

\* the register value variables of a program that only accesses the block
NoValue ==
  /\ reg = "none"
  /\ raw = {}
  /\ prev = {}
  /\ op = "none"
  /\ field = "none"
  /\ arg = "none"
  /\ got = "none"
  /\ origin = "none"
  /\ steps = 0

InitAccess ==
  /\ \E base \in Handles : uart = new(base)
  /\ trace = <<>>
  /\ mem = [a \in {base_address(uart.base) + o.offset : o \in Operations}
              |-> ResetContent(a - base_address(uart.base))]
  /\ tasks = [c \in Contexts |-> Idle]
  /\ hist = <<>>
  /\ NoValue

\* one volatile access as the trace records it
Access(kind, addr, R, value, c, call) ==
  [kind |-> kind, addr |-> addr, ty |-> R, value |-> value, ctx |-> c,
   call |-> call]

\* read_X(&self): self.read_register::<R>(offset)
read_register(c, o) ==
  /\ Len(hist) < MaxCalls
  /\ MayCall(c)
  /\ LET raw_ == register_pointer(uart, o.offset, o.ty)
         v == read_volatile(mem, raw_, o.ty)
     IN  /\ trace' = Append(trace, Access("load", raw_, o.ty, v, c, Len(hist) + 1))
         /\ hist' = Append(hist, [op |-> o.name, ctx |-> c, f |-> keep,
                                  value |-> v, done |-> TRUE])
  /\ UNCHANGED <<uart, mem, tasks>>
  /\ UNCHANGED valueVars

\* write_X with a store that is not volatile: the store is moved before the
\* accesses made so far
write_register_hoisted(c, o, value) ==
  /\ Len(hist) < MaxCalls
  /\ MayCall(c)
  /\ LET raw_ == register_pointer(uart, o.offset, o.ty)
     IN  /\ mem' = write_volatile(mem, raw_, value)
         /\ trace' = <<Access("store", raw_, o.ty, value, c, Len(hist) + 1)>>
                        \o trace
         /\ hist' = Append(hist, [op |-> o.name, ctx |-> c, f |-> keep,
                                  value |-> value, done |-> TRUE])
  /\ UNCHANGED <<uart, tasks>>
  /\ UNCHANGED valueVars

\* write_X(&self, value): self.write_register::<R>(offset, value)
write_register(c, o, value) ==
  /\ Len(hist) < MaxCalls
  /\ MayCall(c)
  /\ LET raw_ == register_pointer(uart, o.offset, o.ty)
     IN  /\ mem' = write_volatile(mem, raw_, value)
         /\ trace' = Append(trace, Access("store", raw_, o.ty, value, c, Len(hist) + 1))
         /\ hist' = Append(hist, [op |-> o.name, ctx |-> c, f |-> keep,
                                  value |-> value, done |-> TRUE])
  /\ UNCHANGED <<uart, tasks>>
  /\ UNCHANGED valueVars

\* update_X(&self, f), first half: the argument of write_register is
\* evaluated, self.read_register::<R>(offset)
update_register_read(c, o, f) ==
  /\ Len(hist) < MaxCalls
  /\ MayCall(c)
  /\ LET raw_ == register_pointer(uart, o.offset, o.ty)
         v == read_volatile(mem, raw_, o.ty)
     IN  /\ trace' = Append(trace, Access("load", raw_, o.ty, v, c, Len(hist) + 1))
         /\ hist' = Append(hist, [op |-> o.name, ctx |-> c, f |-> f,
                                  value |-> v, done |-> FALSE])
         /\ tasks' = [tasks EXCEPT ![c] = [pc |-> "loaded", call |-> Len(hist) + 1,
                                           v |-> v]]
  /\ UNCHANGED <<uart, mem>>
  /\ UNCHANGED valueVars

\* the value update_register stores with f re-applied to the register as it
\* is in memory at the time of the store
StoreValue_reread(t) ==
  LET o == OpOf(hist[t.call].op)
  IN  Apply(hist[t.call].f, o.ty,
            read_volatile(mem, register_pointer(uart, o.offset, o.ty), o.ty))

\* the value update_register stores with f applied twice
StoreValue_twice(t) ==
  LET o == OpOf(hist[t.call].op)
  IN  Apply(hist[t.call].f, o.ty, Apply(hist[t.call].f, o.ty, t.v))

\* the value update_register stores: f(self.read_register::<R>(offset)), f
\* applied to the value the read returned
StoreValue(t) == Apply(hist[t.call].f, OpOf(hist[t.call].op).ty, t.v)

\* update_X(&self, f), second half: self.write_register::<R>(offset, f(v))
update_register_write(c) ==
  /\ tasks[c].pc = "loaded"
  /\ LET t == tasks[c]
         o == OpOf(hist[t.call].op)
         raw_ == register_pointer(uart, o.offset, o.ty)
         value == StoreValue(t)
     IN  /\ mem' = write_volatile(mem, raw_, value)
         /\ trace' = Append(trace, Access("store", raw_, o.ty, value, c, t.call))
         /\ hist' = [hist EXCEPT ![t.call].done = TRUE]
         /\ tasks' = [tasks EXCEPT ![c] = Idle]
  /\ UNCHANGED uart
  /\ UNCHANGED valueVars

NextAccess ==
  \/ \E c \in Contexts : \E o \in ReadOps : read_register(c, o)
  \/ \E c \in Contexts : \E o \in WriteOps : \E value \in WriteArgs(o) :
       write_register(c, o, value)
  \/ \E c \in Contexts : \E o \in UpdateOps : \E f \in Closures(o.ty) :
       update_register_read(c, o, f)
  \/ \E c \in Contexts : update_register_write(c)

SpecAccess == InitAccess /\ [][NextAccess]_vars


---------------------------------------------------------------------------
(* SpecSingle: the public operations called by one caller alone.           *)
(* SpecUpdates: two contexts that call update_ operations only.            *)

NextSingle ==
  \/ \E o \in ReadOps : read_register(1, o)
  \/ \E o \in WriteOps : \E value \in WriteArgs(o) : write_register(1, o, value)
  \/ \E o \in UpdateOps : \E f \in Closures(o.ty) : update_register_read(1, o, f)
  \/ update_register_write(1)

SpecSingle == InitAccess /\ [][NextSingle]_vars

\* closures the two contexts pass to update_X: those of Closures, and one
\* that changes the line control register
UpdateClosures(R) ==
  IF R = "LineControlRegister"
    THEN {keep, with("word_length", "SixBits")}
    ELSE Closures(R)

NextUpdates ==
  \/ \E c \in Contexts : \E o \in UpdateOps : \E f \in UpdateClosures(o.ty) :
       update_register_read(c, o, f)
  \/ \E c \in Contexts : update_register_write(c)

SpecUpdates == InitAccess /\ [][NextUpdates]_vars

---------------------------------------------------------------------------
(* One caller running the same operations through a UART<FixedAddress<B>>  *)
(* and through a UART<usize> holding B, each against its own copy of the   *)
(* same memory.  uart, mem, trace and hist hold one component per handle.  *)

\* the addresses B a block is placed at
Addresses == {4096, 36864}

\* the memory both handles start from: the blocks at every address of
\* Addresses in their reset content
BlockMemory ==
  [a \in {B + o.offset : B \in Addresses, o \in Operations}
     |-> ResetContent(CHOOSE off \in {o.offset : o \in Operations} :
                        \E B \in Addresses : a = B + off)]

\* what one handle has done: its memory, the accesses made and the calls
\* with their results
Run(m, t, h) == [mem |-> m, trace |-> t, hist |-> h]

\* read_X(&self) by the single caller
RunRead(self, s, o) ==
  LET raw_ == register_pointer(self, o.offset, o.ty)
      v == read_volatile(s.mem, raw_, o.ty)
      n == Len(s.hist) + 1
  IN  Run(s.mem,
          Append(s.trace, Access("load", raw_, o.ty, v, 1, n)),
          Append(s.hist, [op |-> o.name, ctx |-> 1, f |-> keep,
                          value |-> v, done |-> TRUE]))

\* write_X(&self, value) by the single caller
RunWrite(self, s, o, value) ==
  LET raw_ == register_pointer(self, o.offset, o.ty)
      n == Len(s.hist) + 1
  IN  Run(write_volatile(s.mem, raw_, value),
          Append(s.trace, Access("store", raw_, o.ty, value, 1, n)),
          Append(s.hist, [op |-> o.name, ctx |-> 1, f |-> keep,
                          value |-> value, done |-> TRUE]))

\* update_X(&self, f) by the single caller:
\* self.write_register::<R>(offset, f(self.read_register::<R>(offset)))
RunUpdate(self, s, o, f) ==
  LET raw_ == register_pointer(self, o.offset, o.ty)
      v == read_volatile(s.mem, raw_, o.ty)
      value == Apply(f, o.ty, v)
      n == Len(s.hist) + 1
  IN  Run(write_volatile(s.mem, raw_, value),
          s.trace \o <<Access("load", raw_, o.ty, v, 1, n),
                        Access("store", raw_, o.ty, value, 1, n)>>,
          Append(s.hist, [op |-> o.name, ctx |-> 1, f |-> f,
                          value |-> v, done |-> TRUE]))

InitPair ==
  /\ \E B \in Addresses :
       uart = [fixed |-> new([ty |-> "FixedAddress", BASE |-> B]),
               runtime |-> new([ty |-> "usize", addr |-> B])]
  /\ mem = [fixed |-> BlockMemory, runtime |-> BlockMemory]
  /\ trace = [fixed |-> <<>>, runtime |-> <<>>]
  /\ hist = [fixed |-> <<>>, runtime |-> <<>>]
  /\ tasks = [c \in Contexts |-> Idle]
  /\ NoValue

\* the state of the handle k
Of(k) == Run(mem[k], trace[k], hist[k])

\* both handles have made the step to a and b
Become(a, b) ==
  /\ mem' = [fixed |-> a.mem, runtime |-> b.mem]
  /\ trace' = [fixed |-> a.trace, runtime |-> b.trace]
  /\ hist' = [fixed |-> a.hist, runtime |-> b.hist]
  /\ UNCHANGED <<uart, tasks>>
  /\ UNCHANGED valueVars

PairRead(o) ==
  /\ Len(hist.fixed) < MaxCalls
  /\ Become(RunRead(uart.fixed, Of("fixed"), o),
            RunRead(uart.runtime, Of("runtime"), o))

PairWrite(o, value) ==
  /\ Len(hist.fixed) < MaxCalls
  /\ Become(RunWrite(uart.fixed, Of("fixed"), o, value),
            RunWrite(uart.runtime, Of("runtime"), o, value))

PairUpdate(o, f) ==
  /\ Len(hist.fixed) < MaxCalls
  /\ Become(RunUpdate(uart.fixed, Of("fixed"), o, f),
            RunUpdate(uart.runtime, Of("runtime"), o, f))

NextPair ==
  \/ \E o \in ReadOps : PairRead(o)
  \/ \E o \in WriteOps : \E value \in WriteArgs(o) : PairWrite(o, value)
  \/ \E o \in UpdateOps : \E f \in Closures(o.ty) : PairUpdate(o, f)

SpecPair == InitPair /\ [][NextPair]_vars

---------------------------------------------------------------------------
(* SpecDriver: one caller that holds a UART handle and one register value  *)
(* of one type: it constructs the value by Default or by read_X, inspects  *)
(* it with getters, rebuilds it with one builder and hands it to write_X.  *)

InitDriver ==
  /\ \E base \in Handles : uart = new(base)
  /\ trace = <<>>
  /\ mem = [a \in {base_address(uart.base) + o.offset : o \in Operations}
              |-> ResetContent(a - base_address(uart.base))]
  /\ tasks = [c \in Contexts |-> Idle]
  /\ hist = <<>>
  /\ NoValue

\* let r = R::default(), before any builder was called
Construct(R) ==
  /\ steps = 0
  /\ reg = "none"
  /\ reg' = R
  /\ raw' = default(R)
  /\ prev' = default(R)
  /\ op' = "default"
  /\ origin' = "default"
  /\ field' = "none"
  /\ arg' = "none"
  /\ got' = "none"
  /\ UNCHANGED steps
  /\ UNCHANGED accessVars

\* let r = uart.read_X()
ReadInto(o) ==
  /\ Len(hist) < MaxCalls
  /\ LET raw_ == register_pointer(uart, o.offset, o.ty)
         v == read_volatile(mem, raw_, o.ty)
     IN  /\ trace' = Append(trace, Access("load", raw_, o.ty, v, 1, Len(hist) + 1))
         /\ hist' = Append(hist, [op |-> o.name, ctx |-> 1, f |-> keep,
                                  value |-> v, done |-> TRUE])
         /\ reg' = o.ty
         /\ raw' = v
         /\ prev' = v
  /\ op' = "read"
  /\ origin' = "read"
  /\ field' = "none"
  /\ arg' = "none"
  /\ got' = "none"
  /\ UNCHANGED <<steps, uart, mem, tasks>>

\* uart.write_X(r)
WriteFrom(o) ==
  /\ Len(hist) < MaxCalls
  /\ o.ty = reg
  /\ LET raw_ == register_pointer(uart, o.offset, o.ty)
     IN  /\ mem' = write_volatile(mem, raw_, raw)
         /\ trace' = Append(trace, Access("store", raw_, o.ty, raw, 1, Len(hist) + 1))
         /\ hist' = Append(hist, [op |-> o.name, ctx |-> 1, f |-> keep,
                                  value |-> raw, done |-> TRUE])
  /\ op' = "write"
  /\ UNCHANGED <<reg, raw, prev, field, arg, got, origin, steps, uart, tasks>>

NextDriver ==
  \/ \E R \in DerivesDefault : Construct(R)
  \/ \E o \in ReadOps :
       o.ty \in Registers /\ reg \in {"none", o.ty} /\ ReadInto(o)
  \/ \E o \in WriteOps : WriteFrom(o)
  \/ reg # "none" /\ steps = 0 /\ \E f \in Fields(reg) :
       \E value \in Values(FieldType(reg, f)) : With(f, value)
  \/ reg # "none" /\ \E f \in Fields(reg) : Get(f)

SpecDriver == InitDriver /\ [][NextDriver]_vars
---------------------------------------------------------------------------
(* Properties of register values.                                          *)

\* the bits [lo, hi] the declaration gives field f of register type R
FieldBits(R, f) == Decl(R).fields[f].lo .. Decl(R).fields[f].hi

\* the bits of R that belong to no declared field
UndeclaredBits(R) ==
  (0..(Decl(R).width - 1)) \ UNION {FieldBits(R, f) : f \in DOMAIN Decl(R).fields}

\* equality of two results of the getter of a field of type ty
SameResult(ty, a, b) ==
  IF Falliable(ty) THEN a.ok = b.ok /\ a.v = b.v ELSE a = b

\* the number (v >> o) & ((1 << n) - 1) for the declared range of field f
DeclaredPattern(R, f, v) ==
  Num({i - Decl(R).fields[f].lo : i \in v \cap FieldBits(R, f)})

\* C1: a builder with_f changes no bit of the raw value outside the declared
\* range [o, o+n) of f: the bits of sibling fields and the bits of no
\* declared field are as they were.
C1_BuilderFrame ==
  op = "with" =>
    \A i \in (0..(Width(reg) - 1)) \ FieldBits(reg, field) :
      (i \in raw) <=> (i \in prev)

\* C1 witness: a builder changed a control register value that has a bit of no
\* declared field set and a sibling field set.
C1_Witness ==
  /\ op = "with"
  /\ reg = "ControlRegister"
  /\ raw # prev
  /\ prev \cap UndeclaredBits(reg) # {}
  /\ \E g \in Fields(reg) \ {field} : prev \cap FieldBits(reg, g) # {}

\* C2: field isolation: after with_f(v) the getter of every other field g of
\* the register returns what it returned before (the same value, the same
\* Ok value or the same Err pattern).
C2_FieldIsolation ==
  op = "with" =>
    \A g \in Fields(reg) \ {field} :
      SameResult(FieldType(reg, g), Getter(reg, g, raw), Getter(reg, g, prev))

\* C2 witness: with_word_length changed a line control value whose neighbours
\* stick_parity and enable_fifos are both set.
C2_Witness ==
  /\ op = "with"
  /\ reg = "LineControlRegister"
  /\ field = "word_length"
  /\ raw # prev
  /\ Getter(reg, "stick_parity", prev)
  /\ Getter(reg, "enable_fifos", prev)

\* the round trip of the last builder: the getter of the field it set returns
\* the value it was given (Ok of it for a fallible field)
RoundTrips ==
  LET r == Getter(reg, field, raw)
  IN  IF Falliable(FieldType(reg, field)) THEN r.ok /\ r.v = arg ELSE r = arg

\* C3: every register type R of the catalogue has an R::default(), and
\* R::default().with_f(v).get_f() returns v (Ok(v) for a fallible field) for
\* every value v of the type of f.
C3_RoundTripFromDefault ==
  /\ reg \in DerivesDefault
  /\ (origin = "default" /\ op = "with") => RoundTrips

\* the round trip where the code allows it: the eight register types that
\* implement Default start from R::default(), the two that do not from a
\* value a read returned, and r.with_f(v).get_f() returns v on all ten.
RoundTripWhereConstructible ==
  /\ origin = "default" <=> reg \in DerivesDefault
  /\ op = "with" => RoundTrips

\* the five named levels in the order of their patterns
FIFOLevels == <<"OneEighth", "OneFourth", "OneHalf", "ThreeFourth", "SevenEighth">>

\* C8: the receive accessor of the interrupt FIFO level select register decodes
\* (r >> 3) & 7 and the transmit accessor r & 7; patterns 0..4 yield the five
\* named levels in order and patterns 5, 6, 7 a failure carrying that 3-bit
\* pattern.
C8_FIFOLevelDecode ==
  (op = "get" /\ reg = "InterruptFIFOLevelSelectRegister") =>
    LET r == Num(raw)
        p == IF field = "receive_interrupt_FIFO_level_select"
               THEN (r \div 8) % 8 ELSE r % 8
    IN  /\ got.ok <=> p <= 4
        /\ got.ok => got.v = FIFOLevels[p + 1]
        /\ ~got.ok => got.v = p

\* C8 witness: the receive accessor fails with pattern 6 on a raw value whose
\* transmit field and high bits hold something else.
C8_Witness ==
  /\ op = "get"
  /\ reg = "InterruptFIFOLevelSelectRegister"
  /\ field = "receive_interrupt_FIFO_level_select"
  /\ ~got.ok
  /\ got.v = 6
  /\ raw \cap {0, 1, 2} = {0}
  /\ 15 \in raw

Reserved(ty, p) ==
  CASE ty = "FIFOLevelSelect" -> p \in 5..7
    [] ty \in {"NonZeroU8", "NonZeroU16"} -> p = 0
    [] OTHER -> FALSE

\* field f of the register value v holds a reserved pattern
HoldsReserved(R, f, v) == Reserved(FieldType(R, f), DeclaredPattern(R, f, v))

\* C10: a reserved pattern p in a fallible field f is never coerced: get_f
\* returns Err(p) and leaves the value as it is; with_g for another field g
\* leaves p in the bits of f, and get_f still returns Err(p); with_f replaces it.
C10_ReservedKept ==
  /\ (op = "get" /\ HoldsReserved(reg, field, prev)) =>
       /\ ~got.ok
       /\ got.v = DeclaredPattern(reg, field, prev)
       /\ raw = prev
  /\ op = "with" =>
       \A f \in Fields(reg) :
         HoldsReserved(reg, f, prev) =>
           IF f = field
             THEN Getter(reg, f, raw).ok /\ Getter(reg, f, raw).v = arg
             ELSE /\ raw \cap FieldBits(reg, f) = prev \cap FieldBits(reg, f)
                  /\ ~Getter(reg, f, raw).ok
                  /\ Getter(reg, f, raw).v = DeclaredPattern(reg, f, prev)

\* C10 witness: with_transmit_interrupt_FIFO_level_select changed a value whose
\* receive field holds the reserved pattern 6.
C10_Witness ==
  /\ op = "with"
  /\ reg = "InterruptFIFOLevelSelectRegister"
  /\ field = "transmit_interrupt_FIFO_level_select"
  /\ raw # prev
  /\ DeclaredPattern(reg, "receive_interrupt_FIFO_level_select", prev) = 6

---------------------------------------------------------------------------
(* The register block: memory map and access discipline.                   *)

\* the memory map: for each public operation the direction, the offset and
\* the width in bits of the register it names (width 0: none is given)
MemoryMap ==
  [
    read_data_register |->
      [kind |-> "read", offset |-> 0, width |-> 32],
    write_data_register |->
      [kind |-> "write", offset |-> 0, width |-> 32],
    update_data_register |->
      [kind |-> "update", offset |-> 0, width |-> 32],
    read_receive_status_register |->
      [kind |-> "read", offset |-> 4, width |-> 32],
    write_error_clear_register |->
      [kind |-> "write", offset |-> 4, width |-> 32],
    read_flag_register |->
      [kind |-> "read", offset |-> 24, width |-> 32],
    read_irda_low_power_register |->
      [kind |-> "read", offset |-> 32, width |-> 8],
    write_irda_low_power_register |->
      [kind |-> "write", offset |-> 32, width |-> 8],
    update_irda_low_power_register |->
      [kind |-> "update", offset |-> 32, width |-> 8],
    read_integer_baud_rate_divisor_register |->
      [kind |-> "read", offset |-> 36, width |-> 16],
    write_integer_baud_rate_divisor_register |->
      [kind |-> "write", offset |-> 36, width |-> 16],
    update_integer_baud_rate_divisor_register |->
      [kind |-> "update", offset |-> 36, width |-> 16],
    read_fractional_baud_rate_divisor_register |->
      [kind |-> "read", offset |-> 40, width |-> 8],
    write_fractional_baud_rate_divisor_register |->
      [kind |-> "write", offset |-> 40, width |-> 8],
    update_fractional_baud_rate_divisor_register |->
      [kind |-> "update", offset |-> 40, width |-> 8],
    read_line_control_register |->
      [kind |-> "read", offset |-> 44, width |-> 16],
    write_line_control_register |->
      [kind |-> "write", offset |-> 44, width |-> 16],
    update_line_control_register |->
      [kind |-> "update", offset |-> 44, width |-> 16],
    read_control_register |->
      [kind |-> "read", offset |-> 48, width |-> 16],
    write_control_register |->
      [kind |-> "write", offset |-> 48, width |-> 16],
    update_control_register |->
      [kind |-> "update", offset |-> 48, width |-> 16],
    read_interrupt_fifo_level_select_register |->
      [kind |-> "read", offset |-> 52, width |-> 16],
    write_interrupt_fifo_level_select_register |->
      [kind |-> "write", offset |-> 52, width |-> 16],
    update_interrupt_fifo_level_select_register |->
      [kind |-> "update", offset |-> 52, width |-> 16],
    read_interrupt_mask_set_clear_register |->
      [kind |-> "read", offset |-> 56, width |-> 16],
    write_interrupt_mask_set_clear_register |->
      [kind |-> "write", offset |-> 56, width |-> 16],
    update_interrupt_mask_set_clear_register |->
      [kind |-> "update", offset |-> 56, width |-> 16],
    read_raw_interrupt_status_register |->
      [kind |-> "read", offset |-> 60, width |-> 0],
    read_masked_interrupt_status_register |->
      [kind |-> "read", offset |-> 64, width |-> 0],
    write_interrupt_clear_register |->
      [kind |-> "write", offset |-> 68, width |-> 0],
    read_dma_control_register |->
      [kind |-> "read", offset |-> 72, width |-> 0],
    write_dma_control_register |->
      [kind |-> "write", offset |-> 72, width |-> 0],
    update_dma_control_register |->
      [kind |-> "update", offset |-> 72, width |-> 0] ]

\* the base address of the handle
Base == base_address(uart.base)

\* the positions in the trace of the accesses call n issued
Pos(n) == {i \in 1..Len(trace) : trace[i].call = n}

\* the accesses call n issued, in the order of the trace
AccessesOf(n) == SelectSeq(trace, LAMBDA a : a.call = n)

Min(S) == CHOOSE i \in S : \A j \in S : i <= j
Max(S) == CHOOSE i \in S : \A j \in S : j <= i

\* C4: each completed read_X issued exactly one volatile load and no store,
\* each completed write_X exactly one volatile store and no load, at address
\* base + offset with the offset the memory map gives for X and, where the
\* map gives one, its width.
C4_SingleAccess ==
  \A n \in 1..Len(hist) :
    LET m == MemoryMap[hist[n].op]
        acc == AccessesOf(n)
    IN  m.kind \in {"read", "write"} =>
          /\ Len(acc) = 1
          /\ acc[1].kind = (IF m.kind = "read" THEN "load" ELSE "store")
          /\ acc[1].addr = Base + m.offset
          /\ m.width # 0 =>
               /\ acc[1].ty \notin ExternalTypes
               /\ 8 * size_of(acc[1].ty) = m.width

\* C4 witness: a handle with a constant base has read the 8-bit IrDA register
\* and written the 16-bit integer baud-rate divisor.
C4_Witness ==
  /\ uart.base.ty = "FixedAddress"
  /\ Len(hist) = 2
  /\ hist[1].op = "read_irda_low_power_register"
  /\ hist[2].op = "write_integer_baud_rate_divisor_register"
  /\ Len(trace) = 2
  /\ trace[1].kind = "load"
  /\ trace[2].kind = "store"

\* C5: each update_X(f) issues first one volatile load at base + offset(X)
\* yielding v and then, to complete, one volatile store of f(v) at the same
\* address: two accesses and no more, f(v) computed from exactly the loaded
\* value, stored whether or not it differs from v, with no access of the
\* same context between the two.
C5_UpdateLoadStore ==
  \A n \in 1..Len(hist) :
    LET h == hist[n]
        m == MemoryMap[h.op]
        acc == AccessesOf(n)
    IN  m.kind = "update" =>
          /\ Len(acc) = (IF h.done THEN 2 ELSE 1)
          /\ acc[1].kind = "load"
          /\ acc[1].addr = Base + m.offset
          /\ acc[1].ctx = h.ctx
          /\ h.done =>
               /\ acc[2].kind = "store"
               /\ acc[2].addr = Base + m.offset
               /\ acc[2].ctx = h.ctx
               /\ acc[2].value = Apply(h.f, acc[1].ty, acc[1].value)
               /\ \A i \in (Min(Pos(n)) + 1)..(Max(Pos(n)) - 1) :
                    trace[i].ctx # h.ctx

\* C5 witness: an update with the identity closure has stored the value it
\* loaded, while the other context accessed the block between its load and
\* its store.
C5_Witness ==
  /\ Len(trace) = 3
  /\ hist[1].f.kind = "keep"
  /\ MemoryMap[hist[1].op].kind = "update"
  /\ hist[1].done
  /\ trace[1].call = 1
  /\ trace[3].call = 1
  /\ trace[3].kind = "store"
  /\ trace[3].value = trace[1].value
  /\ trace[2].ctx # trace[1].ctx

\* two completed updates n1, n2 of the same register by different contexts
\* interleaved as load1, load2, store1, store2 with no other store to the
\* register in between
Interleaved(n1, n2) ==
  /\ MemoryMap[hist[n1].op].kind = "update"
  /\ MemoryMap[hist[n2].op].kind = "update"
  /\ hist[n1].op = hist[n2].op
  /\ hist[n1].ctx # hist[n2].ctx
  /\ hist[n1].done
  /\ hist[n2].done
  /\ Min(Pos(n1)) < Min(Pos(n2))
  /\ Min(Pos(n2)) < Max(Pos(n1))
  /\ Max(Pos(n1)) < Max(Pos(n2))
  /\ \A i \in Min(Pos(n1))..Max(Pos(n2)) :
       (trace[i].kind = "store" /\ trace[i].addr = trace[Min(Pos(n1))].addr)
         => trace[i].call \in {n1, n2}

\* no store to the register of call n after the store of call n
LastStore(n) ==
  \A i \in (Max(Pos(n)) + 1)..Len(trace) :
    ~(trace[i].kind = "store" /\ trace[i].addr = trace[Max(Pos(n))].addr)

\* C6: when two contexts update the same register in the interleaving load1,
\* load2, store1, store2, the second store writes f2 of the content both
\* loaded, and that is the content of the register from then on: the
\* modification f1 of the first context is not in it.
C6_LostUpdate ==
  \A n1, n2 \in 1..Len(hist) :
    Interleaved(n1, n2) =>
      LET v0 == trace[Min(Pos(n1))].value
          R == trace[Min(Pos(n1))].ty
          final == Apply(hist[n2].f, R, v0)
      IN  /\ trace[Min(Pos(n2))].value = v0
          /\ trace[Max(Pos(n2))].value = final
          /\ LastStore(n2) => Cell(mem, trace[Max(Pos(n2))].addr) = final

\* C6 witness: the interleaving has happened on the control register, the
\* first context setting UART_enable and the second toggling transmit_enable;
\* the register ends without UART_enable, unlike after the two updates one
\* after the other.
C6_Witness ==
  /\ Len(hist) = 2
  /\ Interleaved(1, 2)
  /\ hist[1].op = "update_control_register"
  /\ hist[1].f.kind = "with"
  /\ hist[2].f.kind = "toggle"
  /\ ~Getter("ControlRegister", "UART_enable", Cell(mem, Base + 48))
  /\ Cell(mem, Base + 48) #
       Apply(hist[2].f, "ControlRegister",
             Apply(hist[1].f, "ControlRegister", trace[1].value))

\* C7: only the documented direction of each register is reached: the trace
\* holds no store to offset 0x18, 0x3C or 0x40 and no load from offset 0x44,
\* every store to offset 0x04 is issued by write_error_clear_register and
\* every load from it by read_receive_status_register.
C7_DocumentedDirection ==
  \A i \in 1..Len(trace) :
    LET a == trace[i]
        offset == a.addr - Base
    IN  /\ a.kind = "store" => offset \notin {24, 60, 64}
        /\ a.kind = "load" => offset # 68
        /\ (a.kind = "store" /\ offset = 4) =>
             hist[a.call].op = "write_error_clear_register"
        /\ (a.kind = "load" /\ offset = 4) =>
             hist[a.call].op = "read_receive_status_register"

\* C7 witness: the error clear register has been written and the receive
\* status register, at the same offset, read.
C7_Witness ==
  /\ Len(trace) = 2
  /\ trace[1].kind = "store"
  /\ trace[1].addr = Base + 4
  /\ trace[2].kind = "load"
  /\ trace[2].addr = Base + 4

---------------------------------------------------------------------------
(* Bit-range extraction and insertion, and the conversions of field types. *)

\* the value with bit i flipped
Flip(v, i) == IF i \in v THEN v \ {i} ELSE v \cup {i}

\* C11: extraction: the pattern the getter of a field with offset o and width
\* n decodes from raw value v is (v >> o) & ((1 << n) - 1), the getter returns
\* the decoding of that pattern, and flipping any bit of v outside [o, o+n)
\* leaves the result as it is.
C11_Extraction ==
  op = "get" =>
    LET ty == FieldType(reg, field)
        p == DeclaredPattern(reg, field, prev)
    IN  /\ Num(GetterPattern(Code(reg).fields[field], prev)) = p
        /\ SameResult(ty, got, Decode(ty, Word(p)))
        /\ \A i \in (0..(Width(reg) - 1)) \ FieldBits(reg, field) :
             SameResult(ty, Getter(reg, field, Flip(prev, i)), got)

\* C11 witness: overrun_error() returned true on a data register value with
\* bit 11 set and bits above and below it set as well.
C11_Witness ==
  /\ op = "get"
  /\ reg = "DataRegister"
  /\ field = "overrun_error"
  /\ got = TRUE
  /\ {10, 11, 12, 31} \subseteq prev

\* the pattern the last builder was given: the encoding of its argument
NewPattern == Encode(FieldType(reg, field), arg)

\* C12 as stated: with mask = ((1 << n) - 1) << o, the raw value of with_f is
\* (v & ~mask) | ((new_pattern & mask) << o): the pattern is masked with the
\* mask already shifted to the field, and shifted after that.
C12_InsertionShiftedMask ==
  op = "with" =>
    raw = BitOr(prev \ FieldBits(reg, field),
                Shl(Width(reg), BitAnd(NewPattern, FieldBits(reg, field)),
                    Decl(reg).fields[field].lo))

\* C12 as amended: with mask = ((1 << n) - 1) << o, the raw value of with_f is
\* (v & ~mask) | ((new_pattern & ((1 << n) - 1)) << o): the pattern is masked
\* to the width n of the field and then shifted to its offset o.
C12_Insertion ==
  op = "with" =>
    LET o == Decl(reg).fields[field].lo
        n == Decl(reg).fields[field].hi - o + 1
    IN  raw = BitOr(prev \ FieldBits(reg, field),
                    Shl(Width(reg), BitAnd(NewPattern, 0..(n - 1)), o))

\* C12 witness: with_word_length(EightBits) on a line control value whose
\* word length bits were 00 and whose other bits are set.
C12_Witness ==
  /\ op = "with"
  /\ reg = "LineControlRegister"
  /\ field = "word_length"
  /\ arg = "EightBits"
  /\ prev \cap {5, 6} = {}
  /\ {4, 7, 15} \subseteq prev
  /\ raw = prev \cup {5, 6}

\* C13: codec laws: putting back into a field the pattern just extracted from
\* it leaves the raw value as it was, insert(v, o, n, extract(v, o, n)) = v,
\* and the pattern extracted after an insertion is the inserted pattern
\* modulo 2^n, extract(insert(v, o, n, p), o, n) = p mod 2^n.
C13_CodecLaws ==
  LET d == Code(reg).fields[field]
      n == Decl(reg).fields[field].hi - Decl(reg).fields[field].lo + 1
  IN  /\ op = "reinsert" => raw = prev
      /\ op \in {"with", "reinsert"} =>
           Num(GetterPattern(d, raw)) = Num(NewPattern) % (2 ^ n)

\* C13 witness: the six-bit fractional divisor put back into a register value
\* whose two bits above the field are set.
C13_Witness ==
  /\ op = "reinsert"
  /\ reg = "FractionalBaudRateDivisorRegister"
  /\ prev = 0..7
  /\ arg = 63
  /\ raw = prev

\* the field types with a total decode
TotalTypes == {"bool", "u8", "u6", "WordLength"}

WordLengths == <<"FiveBits", "SixBits", "SevenBits", "EightBits">>

\* C15: patterns 00, 01, 10, 11 decode to FiveBits, SixBits, SevenBits,
\* EightBits and each variant encodes to its own pattern; on every 16-bit raw
\* value r of the line control register word_length() is the variant of
\* pattern (r >> 5) & 3, and after with_word_length(w) bits 6..5 hold the
\* pattern of w and word_length() returns w.
C15_WordLength ==
  /\ \A p \in 0..3 :
       /\ WordLength_from_bits(Word(p)) = WordLengths[p + 1]
       /\ Num(WordLength_to_bits(WordLengths[p + 1])) = p
  /\ op = "get" => got = WordLengths[((Num(prev) \div 32) % 4) + 1]
  /\ op = "with" =>
       /\ WordLengths[((Num(raw) \div 32) % 4) + 1] = arg
       /\ Getter(reg, "word_length", raw) = arg

\* C15 witness: with_word_length(SevenBits) on a line control value of all
\* ones: bit 5 is cleared, bit 6 stays, nothing else changes.
C15_Witness ==
  /\ op = "with"
  /\ arg = "SevenBits"
  /\ prev = 0..15
  /\ raw = (0..15) \ {5}
  /\ Getter(reg, "word_length", raw) = "SevenBits"

\* C16: for every boolean b and byte d the default data register after
\* with_overrun_error(b) and with_data(d), in either order, reads back
\* overrun_error() = b and data() = d, and its raw value is (b << 11) | d.
C16_DataFields ==
  op = "with_both" =>
    /\ got[1] = arg[1]
    /\ got[2] = arg[2]
    /\ Num(raw) = (IF arg[1] THEN 2048 ELSE 0) + arg[2]

\* C16 witness: with_data(0xFF) and then with_overrun_error(true) gave 0x8FF.
C16_Witness ==
  /\ op = "with_both"
  /\ field = "data"
  /\ arg[1]
  /\ arg[2] = 255
  /\ raw = (0..7) \cup {11}
  /\ got[1]
  /\ got[2] = 255

\* the reset value the hardware defines: all zero, but bits 9 and 8 of the
\* control register
HardwareReset(R) == IF R = "ControlRegister" THEN {8, 9} ELSE {}

\* C17: default construction of a register value yields the raw value the
\* hardware defines as the reset value of the register: all zero for every
\* register other than the control register, bits 9 and 8 set for that one.
C17_DefaultIsReset ==
  op = "default" => raw = HardwareReset(reg)

---------------------------------------------------------------------------
(* The handle: its base address and the order of its accesses.             *)

\* the numeric base address of a handle made by UART::new(b): BASE for
\* FixedAddress<BASE>, the stored value for usize
NumericBase(b) == IF b.ty = "FixedAddress" THEN b.BASE ELSE b.addr

\* C18: the base address of a handle is immutable: no operation changes the
\* handle, and every access made through it or a copy of it, by either
\* context and whatever came before, is at the numeric base address the
\* handle was made with plus the offset of the operation's register.
C18_BaseImmutable ==
  /\ [][uart' = uart]_vars
  /\ [](\A i \in 1..Len(trace) :
          trace[i].addr =
            NumericBase(uart.base) + MemoryMap[hist[trace[i].call].op].offset)

\* C18 witness: both contexts have accessed the block through a handle with a
\* run-time base, the last of four accesses at base + 0x30.
C18_Witness ==
  /\ uart.base.ty = "usize"
  /\ Len(trace) = 4
  /\ trace[1].ctx # trace[2].ctx
  /\ trace[4].addr = 4096 + 48


\* C19: constant and runtime addressing are equivalent.  For every address B
\* and every sequence of public operations, the UART<FixedAddress<B>> handle
\* and the UART<usize> handle holding B, started on the same memory, have
\* issued the same accesses (kind, address, register type, value) in the
\* same order, have returned the same results and have left the same memory.
C19_AddressingEquivalent ==
  /\ base_address(uart.fixed.base) = base_address(uart.runtime.base)
  /\ Len(trace.fixed) = Len(trace.runtime)
  /\ \A i \in 1..Len(trace.fixed) :
       /\ trace.fixed[i].kind = trace.runtime[i].kind
       /\ trace.fixed[i].addr = trace.runtime[i].addr
       /\ trace.fixed[i].ty = trace.runtime[i].ty
       /\ trace.fixed[i].value = trace.runtime[i].value
  /\ hist.fixed = hist.runtime
  /\ mem.fixed = mem.runtime

\* at the second block an update of the DMA control register stored 5 and
\* the read that followed returned it, through both handles
C19_Witness ==
  /\ uart.fixed.base = [ty |-> "FixedAddress", BASE |-> 36864]
  /\ uart.runtime.base = [ty |-> "usize", addr |-> 36864]
  /\ Len(hist.fixed) = 2
  /\ Len(trace.runtime) = 3
  /\ trace.fixed[2].kind = "store"
  /\ trace.fixed[3].kind = "load"
  /\ trace.fixed[3].addr = 36864 + 72
  /\ trace.runtime[3].value = Word(5)
  /\ hist.runtime[2].value = Word(5)

\* the accesses the call n has to have made so far: one load for read_X, one
\* store for write_X, a load and, once the call has returned, a store for
\* update_X, all at the offset of X
OpAccesses(n) ==
  LET m == MemoryMap[hist[n].op]
      load == [kind |-> "load", offset |-> m.offset, call |-> n]
      store == [kind |-> "store", offset |-> m.offset, call |-> n]
  IN  CASE m.kind = "read" -> <<load>>
        [] m.kind = "write" -> <<store>>
        [] m.kind = "update" -> IF hist[n].done THEN <<load, store>> ELSE <<load>>

\* the accesses of the first n calls that caller c made, in call order
RECURSIVE ProgramOrder(_, _)
ProgramOrder(c, n) ==
  IF n = 0
    THEN <<>>
    ELSE ProgramOrder(c, n - 1)
           \o (IF hist[n].ctx = c THEN OpAccesses(n) ELSE <<>>)

\* the accesses of caller c as the hardware saw them
Observed(c) ==
  LET own == SelectSeq(trace, LAMBDA a : a.ctx = c)
  IN  [i \in 1..Len(own) |->
         [kind |-> own[i].kind, offset |-> own[i].addr - Base,
          call |-> own[i].call]]

\* C20: program order.  For each caller the accesses the hardware saw from
\* it are exactly the accesses of its operations concatenated in call order:
\* one load per read_X, one store per write_X, a load then a store per
\* update_X; none is dropped, merged, duplicated or moved before an access
\* of an earlier call.
C20_ProgramOrder ==
  \A c \in Contexts : Observed(c) = ProgramOrder(c, Len(hist))

\* one caller has updated a register and then written one: load, store,
\* store
C20_Witness ==
  /\ Len(hist) = 2
  /\ hist[1].ctx = 1
  /\ hist[2].ctx = 1
  /\ MemoryMap[hist[1].op].kind = "update"
  /\ MemoryMap[hist[2].op].kind = "write"
  /\ Len(trace) = 3
  /\ trace[2].kind = "store"
  /\ trace[2].call = 1
  /\ trace[3].kind = "store"
  /\ trace[3].call = 2

---------------------------------------------------------------------------
(* The register value and the hardware behind the handle.                  *)

\* the stores of the trace to the cell at address a
StoresTo(a) == {i \in 1..Len(trace) : trace[i].kind = "store" /\ trace[i].addr = a}

\* the memory that the stores of the trace, and nothing else, leave behind
\* the reset content of the block
Replayed ==
  [a \in DOMAIN mem |->
     IF StoresTo(a) = {}
       THEN ResetContent(a - Base)
       ELSE trace[Max(StoresTo(a))].value]

\* C21: no unrequested access.  A getter, a builder and Default construction
\* leave the memory, the trace, the calls made and the handle as they are;
\* the trace holds one access per read_X / write_X call, none after
\* UART::new alone; and the memory is the reset content changed by the
\* stores of the trace only, so that a value a builder made is in a cell
\* only once a write_X stored it.
C21_NoUnrequestedAccess ==
  /\ [][op' \in {"default", "with", "get"} =>
          /\ mem' = mem
          /\ trace' = trace
          /\ hist' = hist
          /\ uart' = uart]_vars
  /\ [][(mem' # mem \/ trace' # trace) =>
          /\ Len(hist') = Len(hist) + 1
          /\ Len(trace') = Len(trace) + 1
          /\ op' \in {"read", "write"}]_vars
  /\ [](Len(trace) = Len(hist) /\ mem = Replayed)

\* the control register was read, UART_enable was found clear and was set
\* by the builder, and the value was written: the cell holds the built value
C21_Witness ==
  /\ Len(hist) = 2
  /\ hist[1].op = "read_control_register"
  /\ hist[2].op = "write_control_register"
  /\ op = "write"
  /\ field = "UART_enable"
  /\ arg = TRUE
  /\ steps = 1
  /\ raw = trace[1].value \cup {0}
  /\ raw # trace[1].value
  /\ trace[2].value = raw
  /\ Cell(mem, trace[2].addr) = raw

\* the content of the cell at address a when the access at position i of the
\* trace is made
ContentAt(a, i) ==
  LET before == {j \in StoresTo(a) : j < i}
  IN  IF before = {} THEN ResetContent(a - Base) ELSE trace[Max(before)].value

\* C22: receive status and error clear are two operations at offset 0x04.
\* read_receive_status_register issues one load of a 32-bit
\* ReceiveStatusRegister at base + 0x04 and returns the content of the cell;
\* write_error_clear_register issues one store of the 32-bit constant 0 at
\* base + 0x04 whatever the cell holds; no store ever carries a
\* ReceiveStatusRegister value.
C22_StatusAndClear ==
  /\ \A n \in 1..Len(hist) :
       LET acc == AccessesOf(n)
       IN  /\ hist[n].op = "read_receive_status_register" =>
                /\ Len(acc) = 1
                /\ acc[1].kind = "load"
                /\ acc[1].addr = Base + 4
                /\ acc[1].ty = "ReceiveStatusRegister"
                /\ 8 * size_of(acc[1].ty) = 32
                /\ hist[n].value = acc[1].value
                /\ hist[n].value = ContentAt(Base + 4, Min(Pos(n)))
           /\ hist[n].op = "write_error_clear_register" =>
                /\ Len(acc) = 1
                /\ acc[1].kind = "store"
                /\ acc[1].addr = Base + 4
                /\ acc[1].ty = "u32"
                /\ 8 * size_of(acc[1].ty) = 32
                /\ acc[1].value = {}
                /\ (\A j \in StoresTo(Base + 4) : j <= Min(Pos(n))) =>
                     Cell(mem, Base + 4) = {}
  /\ \A i \in 1..Len(trace) :
       trace[i].kind = "store" => trace[i].ty # "ReceiveStatusRegister"

\* the errors were cleared while the cell held its non-zero reset content,
\* and the receive status read that followed returned 0
C22_Witness ==
  /\ Len(hist) = 2
  /\ hist[1].op = "write_error_clear_register"
  /\ hist[2].op = "read_receive_status_register"
  /\ ContentAt(Base + 4, 1) # {}
  /\ trace[1].value = {}
  /\ hist[2].value = {}

\* the bits the generated builder of field f of R clears and sets
MaskBits(R, f) == Word(Code(R).fields[f].clear)

\* C23: field layout well-formedness.  In the register type at hand, of
\* storage width W, every declared field lies within the W bits (bit-offset
\* + bit-width <= W) and no two declared fields share a bit; the masks of
\* the generated builders are those declared ranges.
C23_LayoutWellFormed ==
  LET W == Decl(reg).width
  IN  /\ W = Width(reg)
      /\ DOMAIN Decl(reg).fields = Fields(reg)
      /\ \A f \in Fields(reg) :
           LET d == Decl(reg).fields[f]
           IN  /\ 0 <= d.lo
               /\ d.lo <= d.hi
               /\ d.lo + (d.hi - d.lo + 1) <= W
               /\ MaskBits(reg, f) = FieldBits(reg, f)
      /\ \A f, g \in Fields(reg) :
           f # g => FieldBits(reg, f) \cap FieldBits(reg, g) = {}

\* the builder of the top field of the control register, which ends at the
\* last bit of the 16, set that bit next to the set bit of its neighbour
C23_Witness ==
  /\ reg = "ControlRegister"
  /\ op = "with"
  /\ field = "CTS_hardware_flow_control_enable"
  /\ Decl(reg).fields[field].hi + 1 = Width(reg)
  /\ 15 \in raw
  /\ 15 \notin prev
  /\ 14 \in raw

\* C24: encoding stays in range.  When with_f was given the value x of the
\* field type of n bits, the pattern to_bits(x) is below 2^n; shifted to the
\* offset o of f it keeps every set bit within the W bits of the register;
\* the new raw value has no bit at or above W, holds exactly the shifted
\* pattern in the bits of f, and has no bit above o+n-1 that it did not
\* have before.
C24_EncodingInRange ==
  op = "with" =>
    LET ty == FieldType(reg, field)
        n == TypeBits(ty)
        o == Decl(reg).fields[field].lo
        W == Width(reg)
        pattern == Encode(ty, arg)
        shifted == Shl(W, pattern, Code(reg).fields[field].shl)
    IN  /\ pattern \subseteq 0..(n - 1)
        /\ n = Cardinality(FieldBits(reg, field))
        /\ shifted = {i + o : i \in pattern}
        /\ Cardinality(shifted) = Cardinality(pattern)
        /\ raw \subseteq 0..(W - 1)
        /\ raw \cap FieldBits(reg, field) = shifted
        /\ \A i \in raw \ prev : i <= o + n - 1

\* the largest divisor, 65535, was put into the default integer baud rate
\* divisor register: it fills the 16 bits of the register and none is lost
C24_Witness ==
  /\ op = "with"
  /\ reg = "IntegerBaudRateDivisorRegister"
  /\ field = "integer_baud_rate_divisor"
  /\ arg = 65535
  /\ raw = 0..15
  /\ prev = {}

\* the value the closure of update call n gives its field: the constant of
\* |r| r.with_f(v), the negated field of |r| r.with_f(!r.f())
FieldValue(n) ==
  LET h == hist[n]
  IN  IF h.f.kind = "with"
        THEN h.f.value
        ELSE ~Getter(OpOf(h.op).ty, h.f.field, h.value)

\* C26: read-modify-write of one field through hardware by a single caller.
\* A completed update_X(|r| r.with_f(v)) stored a value that differs from
\* the value it loaded only in the bits of f, so that a bit of no declared
\* field loaded as 1 is stored as 1; the getter of f on the stored value,
\* and on the value of a read_X that follows with no store to X in
\* between, yields v; and the cell of every register the caller did not
\* store to holds its reset content.
C26_FieldUpdate ==
  /\ \A n \in 1..Len(hist) :
       (hist[n].done /\ hist[n].f.kind \in {"with", "toggle"}) =>
         LET R == OpOf(hist[n].op).ty
             f == hist[n].f.field
             loaded == trace[Min(Pos(n))].value
             stored == trace[Max(Pos(n))].value
         IN  /\ Len(AccessesOf(n)) = 2
             /\ loaded = hist[n].value
             /\ \A i \in (0..(Width(R) - 1)) \ FieldBits(R, f) :
                  (i \in stored) <=> (i \in loaded)
             /\ stored \cap UndeclaredBits(R) = loaded \cap UndeclaredBits(R)
             /\ Getter(R, f, stored) = FieldValue(n)
             /\ \A m \in (n + 1)..Len(hist) :
                  ( /\ MemoryMap[hist[m].op].kind = "read"
                    /\ MemoryMap[hist[m].op].offset = MemoryMap[hist[n].op].offset
                    /\ \A j \in StoresTo(trace[Max(Pos(n))].addr) :
                         j <= Max(Pos(n)) ) =>
                    Getter(R, f, hist[m].value) = FieldValue(n)
  /\ \A a \in DOMAIN mem : StoresTo(a) = {} => mem[a] = ResetContent(a - Base)

\* the caller set UART_enable in the control register, whose reset content
\* has bits of no declared field set, and read the register back
C26_Witness ==
  /\ Len(hist) = 2
  /\ hist[1].op = "update_control_register"
  /\ hist[1].f.kind = "with"
  /\ hist[1].f.field = "UART_enable"
  /\ hist[1].done
  /\ hist[1].value \cap UndeclaredBits("ControlRegister") # {}
  /\ ~Getter("ControlRegister", "UART_enable", hist[1].value)
  /\ hist[2].op = "read_control_register"
  /\ hist[2].value = hist[1].value \cup {0}
  /\ Getter("ControlRegister", "UART_enable", hist[2].value)

\* the registers at 0x00, 0x04, 0x18, 0x20, 0x24, 0x28, 0x2C, 0x30, 0x34
\* and 0x38: the operations on register types declared in this crate
Declared == {o \in Operations : o.ty \notin ExternalTypes}

\* the bytes [offset, offset + width/8) an operation accesses
ByteRange(o) == o.offset .. (o.offset + size_of(o.ty) - 1)

\* n1 and n2 are completed updates of different registers by different
\* contexts, and no other call has stored anything
TwoUpdates(n1, n2) ==
  /\ n1 # n2
  /\ MemoryMap[hist[n1].op].kind = "update"
  /\ MemoryMap[hist[n2].op].kind = "update"
  /\ hist[n1].op # hist[n2].op
  /\ hist[n1].ctx # hist[n2].ctx
  /\ hist[n1].done
  /\ hist[n2].done
  /\ \A i \in 1..Len(trace) :
       trace[i].kind = "store" => trace[i].call \in {n1, n2}

\* what update call n leaves in its register when nothing interferes: its
\* closure applied to the reset content of the register
Alone(n) ==
  LET o == OpOf(hist[n].op)
      content == IF o.ty \in ExternalTypes
                   THEN ResetContent(o.offset)
                   ELSE CastTo(8 * size_of(o.ty), ResetContent(o.offset))
  IN  Apply(hist[n].f, o.ty, content)

\* C27: updates of different registers do not interfere.  The byte ranges
\* of the registers at different offsets are pairwise disjoint (a fact of
\* the operations, stated of the block before the first call), and when two
\* contexts have run update_X and update_Y with X # Y, whatever the
\* interleaving of their loads and stores, the memory holds in X and in Y
\* what each update leaves when it runs alone, and the reset content in
\* every other cell.
C27_DisjointUpdates ==
  /\ hist = <<>> =>
       /\ \A o1, o2 \in Declared :
            o1.offset # o2.offset => ByteRange(o1) \cap ByteRange(o2) = {}
       /\ \A o1, o2 \in UpdateOps : o1.name # o2.name => o1.offset # o2.offset
  /\ \A n1, n2 \in 1..Len(hist) :
       TwoUpdates(n1, n2) =>
         LET a1 == Base + MemoryMap[hist[n1].op].offset
             a2 == Base + MemoryMap[hist[n2].op].offset
         IN  /\ a1 # a2
             /\ Cell(mem, a1) = Alone(n1)
             /\ Cell(mem, a2) = Alone(n2)
             /\ \A a \in DOMAIN mem \ {a1, a2} : mem[a] = ResetContent(a - Base)

\* the updates of the control register and of the line control register
\* ran interleaved, load, load, store, store, and both fields are changed
C27_Witness ==
  /\ Len(hist) = 2
  /\ TwoUpdates(1, 2)
  /\ hist[1].op = "update_control_register"
  /\ hist[1].f.kind = "with"
  /\ hist[2].op = "update_line_control_register"
  /\ hist[2].f.kind = "with"
  /\ Len(trace) = 4
  /\ trace[2].kind = "load"
  /\ trace[2].call = 2
  /\ trace[3].kind = "store"
  /\ trace[3].call = 1
  /\ Getter("ControlRegister", "UART_enable", Cell(mem, Base + 48))
  /\ ~Getter("ControlRegister", "UART_enable", trace[1].value)
  /\ Getter("LineControlRegister", "word_length", Cell(mem, Base + 44)) = "SixBits"
  /\ Getter("LineControlRegister", "word_length", trace[2].value) = "SevenBits"

\* the values a getter of a field of type ty can return: a value of the
\* type, or for a fallible type Ok of a value or Err of a pattern of the
\* field's width
Returns(ty, r) ==
  IF Falliable(ty)
    THEN IF r.ok
           THEN r.v \in AllValues(ty)
           ELSE r.v \in 0..(Pow2(TypeBits(ty)) - 1)
    ELSE r \in AllValues(ty)

\* C28: no getter can panic.  On every 16-bit raw value of the line control
\* register word_length() returns one of the four WordLength variants, the
\* unreachable arm of from_bits is never entered; every other getter of
\* every register returns a value of its type, or Ok of one or Err of a
\* pattern, and leaves the register value as it is.
C28_NoPanic ==
  op = "get" =>
    /\ Returns(FieldType(reg, field), got)
    /\ FieldType(reg, field) = "WordLength" =>
         /\ got # "panic: internal error: entered unreachable code"
         /\ \E p \in 1..4 : got = WordLengths[p]
    /\ raw = prev

\* word_length() on the line control value of all ones returned EightBits
C28_Witness ==
  /\ op = "get"
  /\ reg = "LineControlRegister"
  /\ field = "word_length"
  /\ raw = 0..15
  /\ got = "EightBits"

\* C29: builder algebra, on the raw storage value.  When a value r was given
\* with_f(a) and the result with_g(b): for g = f the outcome is r.with_f(b),
\* the last write wins, and for b = a the second call changed nothing; for
\* g # f the outcome is r.with_g(b).with_f(a), the builders commute.
C29_BuilderAlgebra ==
  [][(op = "with" /\ op' = "with") =>
       IF field' = field
         THEN /\ raw' = Builder(reg, field, prev, arg')
              /\ arg' = arg => raw' = raw
         ELSE raw' = Builder(reg, field, Builder(reg, field', prev, arg'), arg)]_vars

\* the second builder call of a chain put FiveBits over the pattern 11 that
\* the line control value held in word_length
C29_Witness ==
  /\ reg = "LineControlRegister"
  /\ op = "with"
  /\ steps = 2
  /\ field = "word_length"
  /\ arg = "FiveBits"
  /\ prev \cap {5, 6} = {5, 6}
  /\ raw \cap {5, 6} = {}
  /\ raw # {}

\* the register types whose only field is non-zero-constrained
DivisorRegisters == {"IrDALowPowerRegister", "IntegerBaudRateDivisorRegister"}

=============================================================================
